---- MODULE Spec2Model ----
(***************************************************************************)
(* A model of clortho's components:                                        *)
(*                                                                         *)
(*   - the Resolver (resolver.Resolve and its helpers), which coalesces    *)
(*     concurrent requests for one key ID onto a single in-flight fetch;   *)
(*   - the Refresher (refresher.Start/Stop, refreshTask.run and            *)
(*     refreshListeners), which polls each source and dispatches events;   *)
(*   - the KeyRing (keyRing.Get, Len, Add, Remove and OnRefreshEvent);     *)
(*   - the Fetcher (fetcher.Fetch with EnsureKeyID).                       *)
(*                                                                         *)
(* Each component has its own specification (ResolverSpec, RefresherSpec   *)
(* and TaskSpec, KeyRingSpec, FetcherSpec) over the module's variables;    *)
(* the variables of the other components stay at their initial value.      *)
(***************************************************************************)
EXTENDS Integers, Sequences, FiniteSets, TLC

VARIABLES
    \* ---- Resolver ----
    hasKeyRing,     \* r.keyRing != nil
    keyRing,        \* keyRing.keys: key ID -> Key
    resolveLock,    \* r.resolveLock: 0 when free, else the caller holding it
    pending,        \* r.pending: key ID -> index into requests
    requests,       \* every pendingResolverRequest allocated so far
    call,           \* per caller: the position and locals of its Resolve call, and
                    \* what is remembered of it: fetched (it invoked the Fetcher)
                    \* and wokenBy (the select case taken)
    resolveEvents,  \* the ResolveEvents handed to r.dispatch
    \* ---- Refresher ----
    taskLock,       \* r.taskLock: 0 when free, else the lifecycle caller holding it
    taskCancel,     \* r.taskCancel: 0 when nil, else the run whose context it cancels
    tasks,          \* r.tasks: the task handles of the current run
    started,        \* number of runs (task contexts) created by Start so far
    cancelled,      \* the runs whose task context has been cancelled
    life,           \* per lifecycle caller: the position of its Start/Stop call
    task,           \* per task <<run, URI>>: the locals of refreshTask.run
    polls,          \* number of Fetch calls made by the tasks so far
    listenersNil,   \* rl.listeners == nil
    listeners,      \* rl.listeners: the registered listeners, in list order
    cache,          \* rl.cache: URI -> last dispatched event
    lstate,         \* per listener: "new" or "added" (in the list)
    received,       \* per listener: the events passed to its OnRefreshEvent
    dispatched,     \* every event passed to refreshListeners.dispatch, in order
    regAt,          \* per listener: Len(dispatched) when it was added
    rlLock,         \* rl.lock: <<>> when free, else the task <<run, URI>> or the
                    \* listener <<l>> whose call holds it
    \* ---- KeyRing ----
    krLock,         \* kr.lock: the writer holding it (0 when none) and its readers
    krCall,         \* per KeyRing caller: the position and locals of its call, and
                    \* start, the keys it found when it took the lock
    \* ---- Fetcher ----
    fetchCall,      \* one call of fetcher.Fetch: what its Loader and Parser return
                    \* and, once it has returned, its keys and error
    \* ---- listeners ----
    lsLock,         \* l.lock: TRUE while a visit holds it
    lsList,         \* l.listeners: nil, or the elements of the list, front first
    lsElems,        \* the elements PushBack made so far: the listener of each
    lsCancels,      \* per element: for each invocation of its CancelListenerFunc that
                    \* returned, the number of visits made by then
    lsVisit,        \* the visit under way: its event and the element it is at
    lsSeen,         \* per element: the events f was called with for its listener
    \* ---- Single calls of functions ----
    intervalCall,       \* a call of computeNextRefresh or jitterer.nextInterval
    newRefresherCall,   \* a call of NewRefresher
    parseCall           \* a call of Parser.Parse

resolverVars == <<hasKeyRing, keyRing, resolveLock, pending, requests, call, resolveEvents>>
refresherVars == <<taskLock, taskCancel, tasks, started, cancelled, life, task, polls,
                   listenersNil, listeners, cache, lstate, received, dispatched, regAt,
                   rlLock>>
keyRingVars == <<krLock, krCall>>
fetcherVars == <<fetchCall>>
listenerVars == <<lsLock, lsList, lsElems, lsCancels, lsVisit, lsSeen>>
callVars == <<intervalCall, newRefresherCall, parseCall>>
vars == <<resolverVars, refresherVars, keyRingVars, fetcherVars, listenerVars, callVars>>

(***************************************************************************)
(* Bounds of the model.                                                    *)
(***************************************************************************)
MaxCallers == 3
MaxStarts == 2
MaxPolls == 2
MaxTaskPolls == 3
MaxKeyRingCalls == 3
MaxParsedKeys == 2
MaxAdds == 3
MaxCancels == 3
MaxVisits == 2
MaxSources == 2

(***************************************************************************)
(* Values shared by the components.                                        *)
(***************************************************************************)
\* A Key: its key ID and its material.  NoKey stands for a nil Key.
Key(id, m) == [keyID |-> id, mat |-> m]
NoKey == Key("", 0)

\* Error values.
NoErr == "nil"
ErrKeyNotFound == "ErrKeyNotFound"
ErrRefresherStarted == "ErrRefresherStarted"
ErrRefresherStopped == "ErrRefresherStopped"
ErrFetch == "fetch failed"
ErrParse == "parse failed"
ErrExpand == "expand failed"
ErrCtx == "context canceled"

\* The empty map.
EmptyMap == [x \in {} |-> NoKey]

Range(f) == {f[x] : x \in DOMAIN f}

(***************************************************************************)
(*                              RESOLVER                                   *)
(***************************************************************************)
Callers == 1..MaxCallers

\* The key IDs callers ask for.  The fetched documents also hold the key
\* IDs "b" and "c", which no caller asks for.
RequestedKeyIDs == {"a"}

\* The documents the Fetcher may return for a resolve: no key, one key whose
\* ID matches or does not, and key sets with and without the requested ID.
\* Every key of a successful fetch has a key ID (fetcher.Fetch, EnsureKeyID).
ResolveDocs ==
    { <<>>,
      <<Key("a", 1)>>,
      <<Key("b", 1)>>,
      <<Key("c", 1), Key("a", 1)>>,
      <<Key("c", 1), Key("b", 1)>> }

\* What Fetcher.Fetch may return to fetchKey.
ResolveFetchOutcomes ==
    {[keys |-> d, err |-> NoErr] : d \in ResolveDocs} \cup {[keys |-> <<>>, err |-> ErrFetch]}

\* Expander.Expand of the key ID template.
Expand(keyID) == <<"http://getkeys.com/", keyID>>

IdleCall == [pc |-> "idle", keyID |-> "", ctxDone |-> FALSE, request |-> 0,
             wait |-> FALSE, k |-> NoKey, err |-> NoErr, wokenBy |-> "none",
             fetched |-> FALSE]

ResolverInit ==
    /\ hasKeyRing \in BOOLEAN
    /\ keyRing = EmptyMap
    /\ resolveLock = 0
    /\ pending = [x \in {} |-> 0]
    /\ requests = <<>>
    /\ call = [c \in Callers |-> IdleCall]
    /\ resolveEvents = {}

\* resolver.checkKeyRing
checkKeyRing(keyID) ==
    IF hasKeyRing /\ keyID \in DOMAIN keyRing
    THEN [k |-> keyRing[keyID], ok |-> TRUE]
    ELSE [k |-> NoKey, ok |-> FALSE]

\* keyRing.Get: the key stored under keyID and whether there is one.
keyRingGet(keys, keyID) ==
    IF keyID \in DOMAIN keys
    THEN [k |-> keys[keyID], ok |-> TRUE]
    ELSE [k |-> NoKey, ok |-> FALSE]

\* A mutant of keyRingAdd: the key is not stored.
keyRingAddNothing(keys, newKey) == keys

\* keyRing.Add of one key: keys without a key ID are skipped.
keyRingAdd(keys, newKey) ==
    IF newKey.keyID # ""
    THEN [x \in DOMAIN keys \cup {newKey.keyID} |->
            IF x = newKey.keyID THEN newKey ELSE keys[x]]
    ELSE keys

\* A mutant of requestFor: a new request is made even when one is pending.
requestForAlwaysNew(prr, keyID) ==
    [r |-> Len(requests) + 1, wait |-> FALSE,
     prr |-> [x \in DOMAIN prr \cup {keyID} |->
                IF x = keyID THEN Len(requests) + 1 ELSE prr[x]]]

\* A mutant of requestFor: the caller is handed the first request ever
\* made, finished or not, and so its result.
requestForFirst(prr, keyID) ==
    IF Len(requests) > 0
    THEN [r |-> 1, wait |-> TRUE, prr |-> prr]
    ELSE [r |-> 1, wait |-> FALSE,
          prr |-> [x \in DOMAIN prr \cup {keyID} |-> IF x = keyID THEN 1 ELSE prr[x]]]

\* pendingResolverRequests.requestFor: the pending request for keyID when
\* there is one (wait), else a new request, entered in the table.
requestFor(prr, keyID) ==
    IF keyID \in DOMAIN prr
    THEN [r |-> prr[keyID], wait |-> TRUE, prr |-> prr]
    ELSE [r |-> Len(requests) + 1, wait |-> FALSE,
          prr |-> [x \in DOMAIN prr \cup {keyID} |->
                     IF x = keyID THEN Len(requests) + 1 ELSE prr[x]]]

\* A mutant of cleanup: the request stays in the table.
cleanupNothing(prr, keyID) == prr

\* A mutant of cleanup: the entries of the other key IDs are deleted, and
\* the request's own entry is left behind its closed channel.
cleanupOthers(prr, keyID) == [x \in DOMAIN prr \cap {keyID} |-> prr[x]]

\* pendingResolverRequests.cleanup, the table part: delete(prr, request.keyID).
cleanup(prr, keyID) == [x \in DOMAIN prr \ {keyID} |-> prr[x]]

\* The index of the first key of keys whose ID is keyID, 0 when there is none.
RECURSIVE FirstMatch(_, _, _)
FirstMatch(keys, keyID, i) ==
    IF i > Len(keys) THEN 0
    ELSE IF keys[i].keyID = keyID THEN i
    ELSE FirstMatch(keys, keyID, i + 1)

\* A mutant of selectKey: the key set is not scanned, its first key is taken.
selectKeyFirst(keys, keyID) ==
    IF Len(keys) = 0 THEN [k |-> NoKey, err |-> ErrKeyNotFound]
    ELSE [k |-> keys[1], err |-> NoErr]

\* A mutant of selectKey: when no key of the set matches, its last key is
\* returned.
selectKeyLast(keys, keyID) ==
    IF Len(keys) = 0 THEN [k |-> NoKey, err |-> ErrKeyNotFound]
    ELSE LET i == FirstMatch(keys, keyID, 1) IN
         [k |-> keys[IF i = 0 THEN Len(keys) ELSE i], err |-> NoErr]

\* resolver.fetchKey after Fetch returned without error: the key selected
\* from the fetched keys.
selectKey(keys, keyID) ==
    CASE Len(keys) = 0 -> [k |-> NoKey, err |-> ErrKeyNotFound]
      [] Len(keys) = 1 -> [k |-> keys[1], err |-> NoErr]
      [] OTHER ->
            LET i == FirstMatch(keys, keyID, 1) IN
            IF i = 0 THEN [k |-> NoKey, err |-> ErrKeyNotFound]
            ELSE [k |-> keys[i], err |-> NoErr]

\* A mutant of waitForKeyDone: the waiter does not read the stored value.
waitForKeyDoneNoLoad(request) == [k |-> NoKey, err |-> ErrKeyNotFound]

\* resolver.waitForKey, the request.done case: the stored value, or
\* ErrKeyNotFound when the owner stored none.
waitForKeyDone(request) ==
    IF request.value # NoKey
    THEN [k |-> request.value, err |-> NoErr]
    ELSE [k |-> NoKey, err |-> ErrKeyNotFound]

\* A mutant of waitForKeyCtx: an abandoned wait reports the key as missing.
waitForKeyCtxNotFound == [k |-> NoKey, err |-> ErrKeyNotFound]

\* resolver.waitForKey, the ctx.Done() case.
waitForKeyCtx == [k |-> NoKey, err |-> ErrCtx]

\* A mutant of resolveUnlock: the caller leaves its critical section with
\* the lock still held.
resolveUnlockMissing(c) == c

\* r.resolveLock.Unlock() at the end of a critical section of caller c: the
\* value of resolveLock afterwards.
resolveUnlock(c) == 0

\* Resolve is called; the first, unlocked checkKeyRing.  Callers are
\* interchangeable, so they are numbered in the order of their calls.
ResolveCall(c, keyID) ==
    /\ call[c].pc = "idle"
    /\ \A d \in Callers : d < c => call[d].pc # "idle"
    /\ LET hit == checkKeyRing(keyID) IN
       call' = [call EXCEPT ![c] =
                 IF hit.ok
                 THEN [@ EXCEPT !.pc = "done", !.keyID = keyID, !.k = hit.k]
                 ELSE [@ EXCEPT !.pc = "lock", !.keyID = keyID]]
    /\ UNCHANGED <<hasKeyRing, keyRing, resolveLock, pending, requests, resolveEvents>>
    /\ UNCHANGED <<refresherVars, keyRingVars, fetcherVars, listenerVars, callVars>>

\* The critical section of Resolve: Lock, the second checkKeyRing, then
\* requestFor, then Unlock.
ResolveLocked(c) ==
    /\ call[c].pc = "lock"
    /\ resolveLock = 0
    /\ LET hit == checkKeyRing(call[c].keyID)
           rf == requestFor(pending, call[c].keyID)
       IN IF hit.ok
          THEN /\ call' = [call EXCEPT ![c].pc = "done", ![c].k = hit.k]
               /\ UNCHANGED <<pending, requests>>
          ELSE /\ pending' = rf.prr
               /\ requests' = IF rf.wait THEN requests
                              ELSE Append(requests, [keyID |-> call[c].keyID,
                                                     done |-> FALSE, value |-> NoKey])
               /\ call' = [call EXCEPT ![c].pc = IF rf.wait THEN "select" ELSE "owner",
                                       ![c].request = rf.r,
                                       ![c].wait = rf.wait]
    /\ resolveLock' = resolveUnlock(c)
    /\ UNCHANGED <<hasKeyRing, keyRing, resolveEvents>>
    /\ UNCHANGED <<refresherVars, keyRingVars, fetcherVars, listenerVars, callVars>>

\* fetchKey: the template expands and Fetcher.Fetch is invoked.
FetchKeyCall(c) ==
    /\ call[c].pc = "owner"
    /\ call' = [call EXCEPT ![c].pc = "fetching", ![c].fetched = TRUE]
    /\ UNCHANGED <<hasKeyRing, keyRing, resolveLock, pending, requests, resolveEvents>>
    /\ UNCHANGED <<refresherVars, keyRingVars, fetcherVars, listenerVars, callVars>>

\* fetchKey: the Expander fails, so the Fetcher is not invoked.
FetchKeyExpandFails(c) ==
    /\ call[c].pc = "owner"
    /\ call' = [call EXCEPT ![c].pc = "cleanup", ![c].err = ErrExpand]
    /\ UNCHANGED <<hasKeyRing, keyRing, resolveLock, pending, requests, resolveEvents>>
    /\ UNCHANGED <<refresherVars, keyRingVars, fetcherVars, listenerVars, callVars>>

\* fetchKey: Fetcher.Fetch returns and the key is selected from what it
\* returned; then, on success, keyRing.Add(k) and request.value.Store(k).
\* (Nothing reads the owner's locals, so the return and the two stores are
\* one step.)
FetchKeyReturn(c, out) ==
    /\ call[c].pc = "fetching"
    /\ LET sel == IF out.err = NoErr THEN selectKey(out.keys, call[c].keyID)
                  ELSE [k |-> NoKey, err |-> out.err]
       IN /\ call' = [call EXCEPT ![c].pc = "cleanup", ![c].k = sel.k, ![c].err = sel.err]
          /\ IF sel.err = NoErr
             THEN /\ keyRing' = IF hasKeyRing THEN keyRingAdd(keyRing, sel.k) ELSE keyRing
                  /\ requests' = [requests EXCEPT ![call[c].request].value = sel.k]
             ELSE UNCHANGED <<keyRing, requests>>
    /\ UNCHANGED <<hasKeyRing, resolveLock, pending, resolveEvents>>
    /\ UNCHANGED <<refresherVars, keyRingVars, fetcherVars, listenerVars, callVars>>

\* A mutant of closeDone: the channel of the request is left open.
closeDoneMissing(request) == request

\* pendingResolverRequests.cleanup, the channel part: close(request.done).
closeDone(request) == [request EXCEPT !.done = TRUE]

\* The owner: Lock, pending.cleanup(request), Unlock.  Closing request.done
\* wakes every caller blocked in waitForKey on this request.
Cleanup(c) ==
    /\ call[c].pc = "cleanup"
    /\ resolveLock = 0
    /\ pending' = cleanup(pending, requests[call[c].request].keyID)
    /\ requests' = [requests EXCEPT ![call[c].request] = closeDone(@)]
    /\ call' = [d \in Callers |->
                 IF d = c THEN [call[d] EXCEPT !.pc = "dispatch"]
                 ELSE IF /\ call[d].pc = "blocked"
                         /\ call[d].request = call[c].request
                         /\ closeDone(requests[call[c].request]).done
                      THEN [call[d] EXCEPT !.pc = "woken", !.wokenBy = "done"]
                      ELSE call[d]]
    /\ resolveLock' = resolveUnlock(c)
    /\ UNCHANGED <<hasKeyRing, keyRing, resolveEvents>>
    /\ UNCHANGED <<refresherVars, keyRingVars, fetcherVars, listenerVars, callVars>>

\* A mutant of resolveEvent: the event does not carry the location.
resolveEventNoURI(c) ==
    [by |-> c, URI |-> <<>>, KeyID |-> call[c].keyID, Key |-> call[c].k, Err |-> call[c].err]

\* The ResolveEvent the owner c dispatches: the location fetchKey returned
\* (none when the expansion failed), the requested key ID and the key and
\* error of fetchKey; by tells the dispatching caller.
resolveEvent(c) ==
    [by |-> c, URI |-> IF call[c].fetched THEN Expand(call[c].keyID) ELSE <<>>,
     KeyID |-> call[c].keyID, Key |-> call[c].k, Err |-> call[c].err]

\* The owner: r.dispatch(ResolveEvent{...}), then Resolve returns.
Dispatch(c) ==
    /\ call[c].pc = "dispatch"
    /\ resolveEvents' = resolveEvents \cup {resolveEvent(c)}
    /\ call' = [call EXCEPT ![c].pc = "done"]
    /\ UNCHANGED <<hasKeyRing, keyRing, resolveLock, pending, requests>>
    /\ UNCHANGED <<refresherVars, keyRingVars, fetcherVars, listenerVars, callVars>>

\* A waiter reaches the select of waitForKey: a case that is ready is taken
\* (either one when both are), else the caller blocks.
WaitSelect(c) ==
    /\ call[c].pc = "select"
    /\ \/ /\ call[c].ctxDone
          /\ call' = [call EXCEPT ![c].pc = "woken", ![c].wokenBy = "ctx"]
       \/ /\ requests[call[c].request].done
          /\ call' = [call EXCEPT ![c].pc = "woken", ![c].wokenBy = "done"]
       \/ /\ ~call[c].ctxDone
          /\ ~requests[call[c].request].done
          /\ call' = [call EXCEPT ![c].pc = "blocked"]
    /\ UNCHANGED <<hasKeyRing, keyRing, resolveLock, pending, requests, resolveEvents>>
    /\ UNCHANGED <<refresherVars, keyRingVars, fetcherVars, listenerVars, callVars>>

\* waitForKey returns what the taken case yields, and Resolve returns it.
WaitReturn(c) ==
    /\ call[c].pc = "woken"
    /\ LET res == IF call[c].wokenBy = "ctx" THEN waitForKeyCtx
                  ELSE waitForKeyDone(requests[call[c].request])
       IN call' = [call EXCEPT ![c].pc = "done", ![c].k = res.k, ![c].err = res.err]
    /\ UNCHANGED <<hasKeyRing, keyRing, resolveLock, pending, requests, resolveEvents>>
    /\ UNCHANGED <<refresherVars, keyRingVars, fetcherVars, listenerVars, callVars>>

\* A waiter's context is cancelled.  A caller blocked in the select is woken
\* by it.  (Resolve reads the context nowhere else: the owner only hands it to
\* the Fetcher, where a cancellation shows as one more way for Fetch to fail.)
CancelContext(c) ==
    /\ call[c].pc \in {"select", "blocked"}
    /\ ~call[c].ctxDone
    /\ call' = [call EXCEPT ![c].ctxDone = TRUE,
                            ![c].pc = IF @ = "blocked" THEN "woken" ELSE @,
                            ![c].wokenBy = IF call[c].pc = "blocked" THEN "ctx" ELSE @]
    /\ UNCHANGED <<hasKeyRing, keyRing, resolveLock, pending, requests, resolveEvents>>
    /\ UNCHANGED <<refresherVars, keyRingVars, fetcherVars, listenerVars, callVars>>

ResolverNext ==
    \/ \E c \in Callers, keyID \in RequestedKeyIDs : ResolveCall(c, keyID)
    \/ \E c \in Callers : ResolveLocked(c)
    \/ \E c \in Callers : FetchKeyCall(c)
    \/ \E c \in Callers : FetchKeyExpandFails(c)
    \/ \E c \in Callers, out \in ResolveFetchOutcomes : FetchKeyReturn(c, out)
    \/ \E c \in Callers : Cleanup(c)
    \/ \E c \in Callers : Dispatch(c)
    \/ \E c \in Callers : WaitSelect(c)
    \/ \E c \in Callers : WaitReturn(c)
    \/ \E c \in Callers : CancelContext(c)

\* ---- Resolve when no context is cancelled ----

\* What the Fetcher returns in the runs checked for termination: the
\* requested key, or an error.
LiveFetchOutcomes ==
    {[keys |-> <<Key("a", 1)>>, err |-> NoErr], [keys |-> <<>>, err |-> ErrFetch]}

\* Resolve with no context ever cancelled: a caller blocked in waitForKey
\* has one way out only, the close of request.done.
ResolveLiveNext ==
    \/ \E c \in Callers, keyID \in RequestedKeyIDs : ResolveCall(c, keyID)
    \/ \E c \in Callers : ResolveLocked(c)
    \/ \E c \in Callers : FetchKeyCall(c)
    \/ \E c \in Callers : FetchKeyExpandFails(c)
    \/ \E c \in Callers, out \in LiveFetchOutcomes : FetchKeyReturn(c, out)
    \/ \E c \in Callers : Cleanup(c)
    \/ \E c \in Callers : Dispatch(c)
    \/ \E c \in Callers : WaitSelect(c)
    \/ \E c \in Callers : WaitReturn(c)

\* What the scheduler and the Fetcher grant a caller of Resolve: a caller
\* that can take its next step takes it, the lock is handed to a caller
\* that waits for it, and a call of the Fetcher returns.  No caller is
\* bound to call Resolve.
ResolverFairness ==
    \A c \in Callers :
        /\ WF_vars(ResolveLocked(c))
        /\ WF_vars(FetchKeyCall(c) \/ FetchKeyExpandFails(c))
        /\ WF_vars(\E out \in LiveFetchOutcomes : FetchKeyReturn(c, out))
        /\ WF_vars(Cleanup(c))
        /\ WF_vars(Dispatch(c))
        /\ WF_vars(WaitSelect(c))
        /\ WF_vars(WaitReturn(c))

\* ---- Resolve with an owner whose context is cancelled ----

\* The context of a caller that is about to fetch, or is fetching, is
\* cancelled.
CancelOwnerContext(c) ==
    /\ call[c].pc \in {"owner", "fetching"}
    /\ ~call[c].ctxDone
    /\ call' = [call EXCEPT ![c].ctxDone = TRUE]
    /\ UNCHANGED <<hasKeyRing, keyRing, resolveLock, pending, requests, resolveEvents>>
    /\ UNCHANGED <<refresherVars, keyRingVars, fetcherVars, listenerVars, callVars>>

\* fetchKey: Fetcher.Fetch, which was handed the context of the owner,
\* returns the error of the cancelled context.  (A fetch that was complete
\* when the context was cancelled returns as FetchKeyReturn tells.)
FetchKeyCtxReturn(c) ==
    /\ call[c].pc = "fetching"
    /\ call[c].ctxDone
    /\ call' = [call EXCEPT ![c].pc = "cleanup", ![c].k = NoKey, ![c].err = ErrCtx]
    /\ UNCHANGED <<hasKeyRing, keyRing, resolveLock, pending, requests, resolveEvents>>
    /\ UNCHANGED <<refresherVars, keyRingVars, fetcherVars, listenerVars, callVars>>

ResolveCancelNext ==
    \/ ResolverNext
    \/ \E c \in Callers : CancelOwnerContext(c)
    \/ \E c \in Callers : FetchKeyCtxReturn(c)

\* ---- ResolveKeyID, the Resolve of src/doc.go ----

\* fetchKey returns to ResolveKeyID: Fetcher.Fetch returned and the key is
\* selected from what it returned.  Nothing is stored yet.
KeyIDFetchReturn(c, out) ==
    /\ call[c].pc = "fetching"
    /\ LET sel == IF out.err = NoErr THEN selectKey(out.keys, call[c].keyID)
                  ELSE [k |-> NoKey, err |-> out.err]
       IN call' = [call EXCEPT ![c].pc = "cleanup", ![c].k = sel.k, ![c].err = sel.err]
    /\ UNCHANGED <<hasKeyRing, keyRing, resolveLock, pending, requests, resolveEvents>>
    /\ UNCHANGED <<refresherVars, keyRingVars, fetcherVars, listenerVars, callVars>>

\* The owner in ResolveKeyID: Lock; if k != nil, r.keyRing.Add(k), which
\* panics on a nil KeyRing with the lock held, and request.value.Store(k);
\* close(request.done); Unlock.  The request stays in r.pending.
KeyIDComplete(c) ==
    /\ call[c].pc = "cleanup"
    /\ resolveLock = 0
    /\ IF call[c].k # NoKey /\ ~hasKeyRing
       THEN /\ resolveLock' = c
            /\ call' = [call EXCEPT ![c].pc = "panicked"]
            /\ UNCHANGED <<keyRing, requests>>
       ELSE /\ keyRing' = IF call[c].k # NoKey THEN keyRingAdd(keyRing, call[c].k) ELSE keyRing
            /\ requests' = [requests EXCEPT ![call[c].request].done = TRUE,
                                            ![call[c].request].value = call[c].k]
            /\ call' = [d \in Callers |->
                         IF d = c THEN [call[d] EXCEPT !.pc = "dispatch"]
                         ELSE IF call[d].pc = "blocked" /\ call[d].request = call[c].request
                              THEN [call[d] EXCEPT !.pc = "woken", !.wokenBy = "done"]
                              ELSE call[d]]
            /\ resolveLock' = resolveUnlock(c)
    /\ UNCHANGED <<hasKeyRing, pending, resolveEvents>>
    /\ UNCHANGED <<refresherVars, keyRingVars, fetcherVars, listenerVars, callVars>>

\* ResolveKeyID is Resolve up to the return of fetchKey, and again from the
\* dispatch of the event on.
ResolveKeyIDNext ==
    \/ \E c \in Callers, keyID \in RequestedKeyIDs : ResolveCall(c, keyID)
    \/ \E c \in Callers : ResolveLocked(c)
    \/ \E c \in Callers : FetchKeyCall(c)
    \/ \E c \in Callers : FetchKeyExpandFails(c)
    \/ \E c \in Callers, out \in ResolveFetchOutcomes : KeyIDFetchReturn(c, out)
    \/ \E c \in Callers : KeyIDComplete(c)
    \/ \E c \in Callers : Dispatch(c)
    \/ \E c \in Callers : WaitSelect(c)
    \/ \E c \in Callers : WaitReturn(c)
    \/ \E c \in Callers : CancelContext(c)

(***************************************************************************)
(* Resolver: what the claims speak of.                                     *)
(***************************************************************************)
\* The callers that invoked the Fetcher for keyID.
Fetchers(keyID) == {c \in Callers : call[c].fetched /\ call[c].keyID = keyID}

\* The caller that created request r and fetches for it.
Owner(r) == CHOOSE o \in Callers : call[o].request = r /\ ~call[o].wait

\* The owners that are past their store step.
Stored == {o \in Callers : ~call[o].wait /\ call[o].pc \in {"cleanup", "dispatch", "done"}}

\* The owners whose completed fetch for keyID did not leave keyID in the
\* KeyRing: no KeyRing, a failed fetch, or a key stored under another ID.
Uncached(keyID) ==
    {o \in Stored \cap Fetchers(keyID) :
        ~(hasKeyRing /\ call[o].err = NoErr /\ call[o].k.keyID = keyID)}

\* C1, as stated: for every set of concurrent Resolve(K) calls made while K is
\* absent from the KeyRing, the Fetcher is invoked exactly once, so never
\* twice.  With a KeyRing, and while no call has returned, the calls made so
\* far are concurrent and each found K missing from the KeyRing when it was
\* made.
C1_FetchedExactlyOnce ==
    \A keyID \in RequestedKeyIDs :
        (hasKeyRing /\ \A c \in Callers : call[c].pc # "done")
            => Cardinality(Fetchers(keyID)) <= 1

\* C1, amended: at most one Fetcher invocation for K is in flight at a time,
\* and one more invocation is made only after an earlier one completed without
\* leaving K in the KeyRing (no KeyRing, a failed fetch, or a single key with
\* another key ID); a call that returns a key returns after an invocation.
C1_FetchedOnceUnlessUncached ==
    \A keyID \in RequestedKeyIDs :
        /\ Cardinality(Fetchers(keyID)) <= Cardinality(Uncached(keyID)) + 1
        /\ \A c \in Callers :
              call[c].pc = "done" /\ call[c].keyID = keyID /\ call[c].err = NoErr
                  => Cardinality(Fetchers(keyID)) >= 1

\* C1, witness: with a KeyRing, all callers asked for "a" and hold the fetched
\* key, one of them after waiting on the owner, and the Fetcher ran once.
C1_Witness ==
    /\ hasKeyRing
    /\ \A c \in Callers : /\ call[c].pc = "done"
                          /\ call[c].err = NoErr
                          /\ call[c].k = Key("a", 1)
    /\ \E c \in Callers : call[c].wait
    /\ Cardinality(Fetchers("a")) = 1

\* C2: a caller that waited on a request whose fetch succeeded with key k, and
\* whose own context is not cancelled, returns k and a nil error.
C2_WaitersGetFetchedKey ==
    \A c \in Callers :
        (/\ call[c].pc = "done"
         /\ call[c].wait
         /\ ~call[c].ctxDone
         /\ call[Owner(call[c].request)].err = NoErr)
            => /\ call[c].k = call[Owner(call[c].request)].k
               /\ call[c].k # NoKey
               /\ call[c].err = NoErr

\* C2, witness: two callers waited on one successful request and returned
\* its key.
C2_Witness ==
    \E c, d \in Callers :
        /\ c # d
        /\ call[c].pc = "done" /\ call[c].wait /\ ~call[c].ctxDone
        /\ call[d].pc = "done" /\ call[d].wait /\ ~call[d].ctxDone
        /\ call[c].request = call[d].request
        /\ call[Owner(call[c].request)].pc = "done"
        /\ call[c].k = Key("a", 1) /\ call[c].err = NoErr
        /\ call[d].k = Key("a", 1) /\ call[d].err = NoErr

\* The requests some waiter abandoned on the cancellation of its context.
Abandoned == {call[c].request : c \in {w \in Callers : call[w].wokenBy = "ctx"}}

\* C3: a waiter whose wait ends on its context's cancellation returns the
\* context's error; the owner of the abandoned request still completes it
\* (the request is signalled and leaves the table, a fetched key is stored in
\* the request and, with a KeyRing, cached under the key's ID), and the
\* waiters that stayed get what the owner stored.
C3_AbandonedWaitKeepsFetch ==
    /\ \A c \in Callers :
          call[c].pc = "done" /\ call[c].wokenBy = "ctx"
              => call[c].k = NoKey /\ call[c].err = ErrCtx
    /\ \A r \in Abandoned :
          LET o == Owner(r) IN
          /\ call[o].pc = "done" =>
                /\ requests[r].done
                /\ \A x \in DOMAIN pending : pending[x] # r
                /\ call[o].err = NoErr =>
                      /\ requests[r].value = call[o].k
                      /\ hasKeyRing =>
                            /\ call[o].k.keyID \in DOMAIN keyRing
                            /\ keyRing[call[o].k.keyID] \in
                                  {call[d].k : d \in {x \in Stored : call[x].err = NoErr}}
          /\ \A w \in Callers :
                (call[w].pc = "done" /\ call[w].request = r /\ call[w].wokenBy = "done")
                    => IF call[o].err = NoErr
                       THEN call[w].k = call[o].k /\ call[w].err = NoErr
                       ELSE call[w].k = NoKey /\ call[w].err = ErrKeyNotFound

\* C3, witness: one waiter abandoned the request, the owner fetched and cached
\* the key, and another waiter returned that key.
C3_Witness ==
    \E o, w, v \in Callers :
        /\ hasKeyRing
        /\ call[o].pc = "done" /\ call[o].fetched /\ call[o].err = NoErr
        /\ call[w].pc = "done" /\ call[w].request = call[o].request
        /\ call[w].wokenBy = "ctx" /\ call[w].err = ErrCtx
        /\ call[v].pc = "done" /\ call[v].request = call[o].request
        /\ call[v].wokenBy = "done" /\ call[v].k = call[o].k
        /\ keyRing[call[o].k.keyID] = call[o].k

(***************************************************************************)
(*                              REFRESHER                                  *)
(***************************************************************************)
\* The callers of Start and Stop, and the listeners.
Procs == {1, 2}
Listeners == {"l1", "l2"}

\* The configured sources, as validateAndSetDefaults leaves them.  Durations
\* are in one unit; Jitter is in percent.
DefaultRefreshJitter == 10
Sources == {[URI |-> "u1", Interval |-> 20, MinInterval |-> 4, Jitter |-> DefaultRefreshJitter]}

\* ContentMeta: only the TTL is read by the task.
ZeroMeta == [Format |-> "", TTL |-> 0]
Meta(ttl) == [Format |-> "application/jwk-set+json", TTL |-> ttl]

\* The key sets a source may serve.  Every key of a successful fetch has a
\* key ID (fetcher.Fetch, EnsureKeyID).
RefreshDocs ==
    { <<Key("A", 1)>>,
      <<Key("B", 1)>>,
      <<Key("A", 1), Key("B", 1)>> }

\* What Fetcher.Fetch may return to a task: keys with metadata, without a TTL
\* or (the two-key set) with one, or an error.
RefreshFetchOutcomes ==
    {[keys |-> d, meta |-> Meta(IF Len(d) = 2 THEN 5 ELSE 0), err |-> NoErr] : d \in RefreshDocs}
        \cup {[keys |-> <<>>, meta |-> ZeroMeta, err |-> ErrFetch]}

\* HTTPLoader.newMeta for a response without Content-Type, Cache-Control and
\* Expires headers, as a 304 Not Modified usually is.
DefaultHTTPMeta == [Format |-> "application/json", TTL |-> 0]

\* What Fetcher.Fetch returns for a 304: HTTPLoader.transact reads no data
\* and reports no error, LoadContent returns the metadata of the response, and
\* the Parser is given the empty data: it fails, or it finds no key.
NotModifiedOutcomes ==
    { [keys |-> <<>>, meta |-> DefaultHTTPMeta, err |-> ErrParse],
      [keys |-> <<>>, meta |-> DefaultHTTPMeta, err |-> NoErr] }

NoEvent == [URI |-> "", Err |-> NoErr, Keys |-> <<>>, New |-> <<>>, Deleted |-> <<>>,
            run |-> 0, iter |-> 0]

\* The locals of refreshTask.run, with the number of the current iteration.
NewTask == [pc |-> "loop", iter |-> 0, prevKeys |-> <<>>, prevKeyMap |-> EmptyMap,
            prevMeta |-> ZeroMeta, err |-> NoErr, event |-> NoEvent]

\* A task whose goroutine has returned: its locals are gone.
Exited == [NewTask EXCEPT !.pc = "exited"]

RefresherInit ==
    /\ taskLock = 0
    /\ taskCancel = 0
    /\ tasks = {}
    /\ started = 0
    /\ cancelled = {}
    /\ life = [p \in Procs |-> [pc |-> "idle", ret |-> NoErr]]
    /\ task = [t \in {} |-> NewTask]
    /\ polls = 0
    /\ listenersNil = TRUE
    /\ rlLock = <<>>
    /\ listeners = <<>>
    /\ cache = [u \in {} |-> NoEvent]
    /\ lstate = [l \in Listeners |-> "new"]
    /\ received = [l \in Listeners |-> <<>>]
    /\ dispatched = <<>>
    /\ regAt = [l \in Listeners |-> 0]

\* An unrecovered panic in a task ends the whole process.
Alive == \A t \in DOMAIN task : task[t].pc # "panicked"

\* Every enumeration of the set S as a sequence: the orders in which a range
\* over a Go map may visit it.
Orders(S) == {f \in [1..Cardinality(S) -> S] : \A x \in S : \E i \in DOMAIN f : f[i] = x}

KeyIDs(keys) == {keys[i].keyID : i \in DOMAIN keys}

Max(S) == CHOOSE x \in S : \A y \in S : y <= x

\* ---- Start and Stop ----

\* A mutant of taskLockFree: Start and Stop do not take the lock.
taskLockIgnored == TRUE

\* r.taskLock can be taken.
taskLockFree == taskLock = 0

\* Start: r.taskLock.Lock(), then if r.taskCancel != nil, return
\* ErrRefresherStarted (and unlock).
StartCheck(p) ==
    /\ Alive
    /\ life[p].pc = "idle"
    /\ started < MaxStarts \/ taskCancel # 0
    /\ taskLockFree
    /\ IF taskCancel # 0
       THEN /\ life' = [life EXCEPT ![p] = [pc |-> "idle", ret |-> ErrRefresherStarted]]
            /\ UNCHANGED taskLock
       ELSE /\ life' = [life EXCEPT ![p] = [pc |-> "startSpawn", ret |-> NoErr]]
            /\ taskLock' = p
    /\ UNCHANGED <<taskCancel, tasks, started, cancelled, task, polls, listenersNil, rlLock,
                   listeners, cache, lstate, received, dispatched, regAt>>
    /\ UNCHANGED <<resolverVars, keyRingVars, fetcherVars, listenerVars, callVars>>

\* Start: a new task context, one task per source, r.taskCancel and r.tasks
\* set; return nil (and unlock).
StartSpawn(p) ==
    /\ Alive
    /\ life[p].pc = "startSpawn"
    /\ LET run == started + 1
           new == {<<run, s.URI>> : s \in Sources}
       IN /\ started' = run
          /\ task' = [t \in DOMAIN task \cup new |-> IF t \in new THEN NewTask ELSE task[t]]
          /\ taskCancel' = run
          /\ tasks' = new
    /\ life' = [life EXCEPT ![p] = [pc |-> "idle", ret |-> NoErr]]
    /\ taskLock' = 0
    /\ UNCHANGED <<cancelled, polls, listenersNil, rlLock, listeners, cache, lstate, received,
                   dispatched, regAt>>
    /\ UNCHANGED <<resolverVars, keyRingVars, fetcherVars, listenerVars, callVars>>

\* Stop: r.taskLock.Lock(), then if r.taskCancel == nil, return
\* ErrRefresherStopped (and unlock).
StopCheck(p) ==
    /\ Alive
    /\ life[p].pc = "idle"
    /\ taskLockFree
    /\ IF taskCancel = 0
       THEN /\ life' = [life EXCEPT ![p] = [pc |-> "idle", ret |-> ErrRefresherStopped]]
            /\ UNCHANGED taskLock
       ELSE /\ life' = [life EXCEPT ![p] = [pc |-> "stopCancel", ret |-> NoErr]]
            /\ taskLock' = p
    /\ UNCHANGED <<taskCancel, tasks, started, cancelled, task, polls, listenersNil, rlLock,
                   listeners, cache, lstate, received, dispatched, regAt>>
    /\ UNCHANGED <<resolverVars, keyRingVars, fetcherVars, listenerVars, callVars>>

\* Stop: r.taskCancel(), then r.taskCancel and r.tasks are set to nil; return
\* nil (and unlock).  Stop does not wait for the tasks.
StopCancel(p) ==
    /\ Alive
    /\ life[p].pc = "stopCancel"
    /\ cancelled' = cancelled \cup (IF taskCancel # 0 THEN {taskCancel} ELSE {})
    /\ taskCancel' = 0
    /\ tasks' = {}
    /\ life' = [life EXCEPT ![p] = [pc |-> "idle", ret |-> NoErr]]
    /\ taskLock' = 0
    /\ UNCHANGED <<started, task, polls, listenersNil, rlLock, listeners, cache, lstate, received,
                   dispatched, regAt>>
    /\ UNCHANGED <<resolverVars, keyRingVars, fetcherVars, listenerVars, callVars>>

\* ---- The listeners ----
\* Listeners are added and stay: cancelRefresh is not part of this
\* specification.

\* A mutant of addListenerReplay: a new listener is sent nothing.
addListenerNoReplay(c) == {<<>>}

\* addListener: the cached events, each sent to the new listener, in one of
\* the orders a range over the cache may take.
addListenerReplay(c) == Orders(Range(c))

\* Refresher.AddListener: the list is created when nil, the listener is
\* pushed at the back and receives every cached event.  The listeners are
\* named in the order of their registration.
AddListener(l) ==
    /\ Alive
    /\ lstate[l] = "new"
    /\ l = "l2" => lstate["l1"] # "new"
    /\ listenersNil' = FALSE
    /\ listeners' = Append(listeners, l)
    /\ lstate' = [lstate EXCEPT ![l] = "added"]
    /\ \E replay \in addListenerReplay(cache) :
          received' = [received EXCEPT ![l] = @ \o replay]
    /\ regAt' = [regAt EXCEPT ![l] = Len(dispatched)]
    /\ UNCHANGED <<taskLock, taskCancel, tasks, started, cancelled, life, task, polls,
                   cache, dispatched, rlLock>>
    /\ UNCHANGED <<resolverVars, keyRingVars, fetcherVars, listenerVars, callVars>>

\* A mutant of onRefreshEvent: a delivery that overtakes the one before it.
onRefreshEventOvertaking(log, event) ==
    IF log = <<>> THEN <<event>>
    ELSE SubSeq(log, 1, Len(log) - 1) \o <<event, log[Len(log)]>>

\* dispatch: the synchronous call of a listener's OnRefreshEvent, which sees
\* the event after every event it was called with before.
onRefreshEvent(log, event) == Append(log, event)

\* ---- The polling task ----

Source(uri) == CHOOSE s \in Sources : s.URI = uri

\* Start: the precomputed jitter range of a source.
intervalBase(s) == ((100 - s.Jitter) * s.Interval) \div 100
intervalRange(s) == (((100 + s.Jitter) * s.Interval) \div 100) - intervalBase(s) + 1

\* rand.Int63n(n): panics unless n > 0 (no value), else any of 0..n-1.
Int63n(n) == IF n <= 0 THEN {} ELSE 0..(n - 1)

\* computeNextRefresh: the durations it may return; none when it panics.
computeNextRefresh(s, meta, err) ==
    LET drawn == IF err # NoErr \/ meta.TTL <= 0
                 THEN {intervalBase(s) + x : x \in Int63n(intervalRange(s))}
                 ELSE LET base == (2 * (100 - s.Jitter) * meta.TTL) \div 100
                      IN Int63n(meta.TTL - base + 1)
    IN {IF next < s.MinInterval THEN s.MinInterval ELSE next : next \in drawn}

\* newKeyMap: key ID -> key, a later key replacing an earlier one of the
\* same ID.
newKeyMap(keys) ==
    [id \in KeyIDs(keys) |-> keys[Max({i \in DOMAIN keys : keys[i].keyID = id})]]

\* A mutant of findChangesNew: every key of the next map is reported new.
findChangesNewAll(next, prev) == Range(next)

\* findChanges: the keys whose ID is in next and not in prev.
findChangesNew(next, prev) == {next[id] : id \in DOMAIN next \ DOMAIN prev}

\* A mutant of findChangesDeleted: every key of the previous map is reported
\* deleted.
findChangesDeletedAll(next, prev) == Range(prev)

\* findChanges: the keys whose ID is in prev and not in next.
findChangesDeleted(next, prev) == {prev[id] : id \in DOMAIN prev \ DOMAIN next}

\* A mutant of failedEventKeys: a failed poll's event carries no keys.
failedEventKeysNone(prevKeys) == <<>>

\* run, case err != nil: the event's keys are a copy of prevKeys.
failedEventKeys(prevKeys) == prevKeys

\* A mutant of failedPrevKeyMap: a failed poll empties the baseline.
failedPrevKeyMapReset(prevKeyMap) == EmptyMap

\* run, case err != nil: prevKeyMap (like prevKeys) is not assigned.
failedPrevKeyMap(prevKeyMap) == prevKeyMap

\* A mutant of failedPrevMeta: a failed poll keeps the metadata of the last
\* successful one.
failedPrevMetaKept(prevMeta) == prevMeta

\* run, case err != nil: prevMeta = ContentMeta{}.
failedPrevMeta(prevMeta) == ZeroMeta

\* A mutant of ctxErr: the task does not look at its context after a fetch.
ctxErrIgnored(run) == FALSE

\* ctx.Err() != nil for the task context of a run.
ctxErr(run) == run \in cancelled

\* run: the loop starts, or starts over when the timer of the select fires,
\* and calls Fetcher.Fetch(ctx, URI, prevMeta); limit bounds the calls.
TaskFetchUpTo(t, limit) ==
    /\ Alive
    /\ task[t].pc \in {"loop", "timer"}
    /\ polls < limit
    /\ polls' = polls + 1
    /\ task' = [task EXCEPT ![t].pc = "fetching", ![t].iter = @ + 1]
    /\ UNCHANGED <<taskLock, taskCancel, tasks, started, cancelled, life, listenersNil, rlLock,
                   listeners, cache, lstate, received, dispatched, regAt>>
    /\ UNCHANGED <<resolverVars, keyRingVars, fetcherVars, listenerVars, callVars>>

TaskFetch(t) == TaskFetchUpTo(t, MaxPolls)

\* run: Fetch returns out; the switch that ends the task or builds the event
\* and rotates prevKeys, prevKeyMap and prevMeta.
FetchReturn(t, out) ==
    /\ Alive
    /\ task[t].pc = "fetching"
    /\ LET cur == task[t]
           ev == [NoEvent EXCEPT !.URI = t[2], !.Err = out.err, !.run = t[1], !.iter = cur.iter]
       IN IF ctxErr(t[1])
          THEN task' = [task EXCEPT ![t] = Exited]
          ELSE IF out.err = NoErr
          THEN LET nextKeyMap == newKeyMap(out.keys)
               IN \E new \in Orders(findChangesNew(nextKeyMap, cur.prevKeyMap)),
                     del \in Orders(findChangesDeleted(nextKeyMap, cur.prevKeyMap)) :
                     task' = [task EXCEPT ![t] =
                                 [cur EXCEPT !.pc = "dispatch",
                                             !.err = NoErr,
                                             !.event = [ev EXCEPT !.Keys = out.keys,
                                                                  !.New = new,
                                                                  !.Deleted = del],
                                             !.prevKeys = out.keys,
                                             !.prevKeyMap = nextKeyMap,
                                             !.prevMeta = out.meta]]
          ELSE task' = [task EXCEPT ![t] =
                           [cur EXCEPT !.pc = "dispatch",
                                       !.err = out.err,
                                       !.event = [ev EXCEPT !.Keys = failedEventKeys(cur.prevKeys)],
                                       !.prevKeyMap = failedPrevKeyMap(cur.prevKeyMap),
                                       !.prevMeta = failedPrevMeta(cur.prevMeta)]]
    /\ UNCHANGED <<taskLock, taskCancel, tasks, started, cancelled, life, polls, listenersNil, rlLock,
                   listeners, cache, lstate, received, dispatched, regAt>>
    /\ UNCHANGED <<resolverVars, keyRingVars, fetcherVars, listenerVars, callVars>>

\* run: rt.listeners.dispatch(event), then computeNextRefresh and the new
\* timer.  dispatch caches the event, then walks rl.listeners, which panics
\* when the list is nil; computeNextRefresh panics when Int63n does.
TaskDispatch(t) ==
    /\ Alive
    /\ task[t].pc = "dispatch"
    /\ LET event == task[t].event IN
       /\ cache' = [u \in DOMAIN cache \cup {event.URI} |->
                       IF u = event.URI THEN event ELSE cache[u]]
       /\ dispatched' = Append(dispatched, event)
       /\ IF listenersNil
          THEN /\ task' = [task EXCEPT ![t].pc = "panicked"]
               /\ UNCHANGED received
          ELSE /\ received' = [l \in Listeners |->
                                  IF lstate[l] = "added"
                                  THEN onRefreshEvent(received[l], event)
                                  ELSE received[l]]
               /\ task' = [task EXCEPT ![t].pc =
                              IF computeNextRefresh(Source(t[2]), task[t].prevMeta, task[t].err) = {}
                              THEN "panicked" ELSE "timer"]
    /\ UNCHANGED <<taskLock, taskCancel, tasks, started, cancelled, life, polls, listenersNil, rlLock,
                   listeners, lstate, regAt>>
    /\ UNCHANGED <<resolverVars, keyRingVars, fetcherVars, listenerVars, callVars>>

\* run, select: the context is done; the timer is stopped and the task ends.
TaskCancelled(t) ==
    /\ Alive
    /\ task[t].pc = "timer"
    /\ t[1] \in cancelled
    /\ task' = [task EXCEPT ![t] = Exited]
    /\ UNCHANGED <<taskLock, taskCancel, tasks, started, cancelled, life, polls, listenersNil, rlLock,
                   listeners, cache, lstate, received, dispatched, regAt>>
    /\ UNCHANGED <<resolverVars, keyRingVars, fetcherVars, listenerVars, callVars>>

RefresherNext ==
    \/ \E p \in Procs : StartCheck(p)
    \/ \E p \in Procs : StartSpawn(p)
    \/ \E p \in Procs : StopCheck(p)
    \/ \E p \in Procs : StopCancel(p)
    \/ \E l \in Listeners : AddListener(l)
    \/ \E t \in DOMAIN task : TaskFetch(t)
    \/ \E t \in DOMAIN task, out \in RefreshFetchOutcomes : FetchReturn(t, out)
    \/ \E t \in DOMAIN task : TaskDispatch(t)
    \/ \E t \in DOMAIN task : TaskCancelled(t)

\* One run of the Refresher, never stopped, whose source may also answer 304
\* Not Modified.
TaskFetchOutcomes == RefreshFetchOutcomes \cup NotModifiedOutcomes

TaskNext ==
    \/ \E p \in Procs : StartCheck(p)
    \/ \E p \in Procs : StartSpawn(p)
    \/ \E l \in Listeners : AddListener(l)
    \/ \E t \in DOMAIN task : TaskFetchUpTo(t, MaxTaskPolls)
    \/ \E t \in DOMAIN task, out \in TaskFetchOutcomes : FetchReturn(t, out)
    \/ \E t \in DOMAIN task : TaskDispatch(t)

(***************************************************************************)
(* Refresher: what the claims speak of.                                    *)
(***************************************************************************)
\* The runs whose task context is not cancelled.
LiveRuns == (1..started) \ cancelled

\* The call of p that returns in this step, as its caller sees it: a Start
\* returns nil only when it finds the Refresher idle and leaves it running on
\* a new, live run; it returns ErrRefresherStarted only when it finds it
\* running, and leaves it so; a Stop returns nil only when it finds the
\* Refresher running and leaves it idle with that run cancelled; it returns
\* ErrRefresherStopped only when it finds it idle, and leaves it so.
ReturnsAsStated(p) ==
    (life'[p] # life[p] /\ life'[p].pc = "idle") =>
        \/ /\ life[p].pc = "startSpawn" /\ life'[p].ret = NoErr
           /\ taskCancel = 0 /\ taskCancel' = started' /\ started' = started + 1
           /\ taskCancel' \notin cancelled'
        \/ /\ life[p].pc = "idle" /\ life'[p].ret = ErrRefresherStarted
           /\ taskCancel # 0 /\ taskCancel' = taskCancel /\ started' = started
        \/ /\ life[p].pc = "stopCancel" /\ life'[p].ret = NoErr
           /\ taskCancel # 0 /\ taskCancel' = 0 /\ cancelled' = cancelled \cup {taskCancel}
        \/ /\ life[p].pc = "idle" /\ life'[p].ret = ErrRefresherStopped
           /\ taskCancel = 0 /\ taskCancel' = 0 /\ cancelled' = cancelled

\* C4: the Refresher is idle (no live run, taskCancel nil) or running (one
\* live run, the one taskCancel cancels); under every interleaving of the
\* callers, Start succeeds only from idle and Stop only from running, a
\* Start while running returns ErrRefresherStarted and a Stop while idle
\* returns ErrRefresherStopped.
C4_StartStopLifecycle ==
    /\ [](LiveRuns = IF taskCancel # 0 THEN {taskCancel} ELSE {})
    /\ [][\A p \in Procs : ReturnsAsStated(p)]_vars

\* C4, witness: after a restart and a second stop, one caller holds
\* ErrRefresherStarted and the other ErrRefresherStopped.
C4_Witness ==
    /\ started = 2
    /\ cancelled = {1, 2}
    /\ taskCancel = 0
    /\ \E p, q \in Procs : /\ life[p] = [pc |-> "idle", ret |-> ErrRefresherStarted]
                           /\ life[q] = [pc |-> "idle", ret |-> ErrRefresherStopped]

\* The events one task (one source in one run) has dispatched, in order.
EventsOf(run, uri) == SelectSeq(dispatched, LAMBDA e : e.run = run /\ e.URI = uri)

\* The tasks started so far.
Tasks == {<<run, s.URI>> : run \in 1..started, s \in Sources}

\* C5: of two consecutive events of one task that are both successful, the
\* second's new list holds exactly the keys whose ID is in its key set and
\* not in the first's, and its deleted list exactly the keys whose ID is in
\* the first's key set and not in its own, each once.
C5_NewAndDeletedAreTheDifference ==
    \A t \in Tasks :
        LET es == EventsOf(t[1], t[2]) IN
        \A n \in 2..Len(es) :
            (es[n - 1].Err = NoErr /\ es[n].Err = NoErr) =>
                /\ KeyIDs(es[n].New) = KeyIDs(es[n].Keys) \ KeyIDs(es[n - 1].Keys)
                /\ KeyIDs(es[n].Deleted) = KeyIDs(es[n - 1].Keys) \ KeyIDs(es[n].Keys)
                /\ Range(es[n].New) \subseteq Range(es[n].Keys)
                /\ Range(es[n].Deleted) \subseteq Range(es[n - 1].Keys)
                /\ Len(es[n].New) = Cardinality(KeyIDs(es[n].New))
                /\ Len(es[n].Deleted) = Cardinality(KeyIDs(es[n].Deleted))

\* C5, witness: a task served A, then B: its second event reports B new and
\* A deleted.
C5_Witness ==
    \E t \in Tasks :
        LET es == EventsOf(t[1], t[2]) IN
        /\ Len(es) = 2
        /\ es[1].Err = NoErr /\ es[1].Keys = <<Key("A", 1)>>
        /\ es[2].Err = NoErr /\ es[2].Keys = <<Key("B", 1)>>
        /\ es[2].New = <<Key("B", 1)>>
        /\ es[2].Deleted = <<Key("A", 1)>>

\* The key set of the last successful event before the n-th of es; empty
\* when there is none.
LastGoodKeys(es, n) ==
    LET good == {i \in 1..(n - 1) : es[i].Err = NoErr}
    IN IF good = {} THEN <<>> ELSE es[Max(good)].Keys

\* C6: the event of a failed poll carries the error, the key set of the
\* task's last successful poll, and empty new and deleted lists.
C6_FailedPollKeepsKeys ==
    \A t \in Tasks :
        LET es == EventsOf(t[1], t[2]) IN
        \A n \in DOMAIN es :
            es[n].Err # NoErr =>
                /\ es[n].Err = ErrFetch
                /\ es[n].Keys = LastGoodKeys(es, n)
                /\ es[n].New = <<>>
                /\ es[n].Deleted = <<>>

\* C6, witness: a task's poll served A and its next poll failed; both
\* listeners received the failure's event with the key A.
C6_Witness ==
    \E t \in Tasks :
        LET es == EventsOf(t[1], t[2]) IN
        /\ Len(es) = 2
        /\ es[1].Err = NoErr /\ es[1].Keys = <<Key("A", 1)>>
        /\ es[2].Err = ErrFetch /\ es[2].Keys = <<Key("A", 1)>>
        /\ \A l \in Listeners : received[l] # <<>> /\ received[l][Len(received[l])] = es[2]

\* C7, as stated: no iteration ends the polling task; a task ends only
\* once its run has been stopped.  Here with a listener registered, so that
\* dispatch has a list to walk.
C7_TaskEndsOnlyWhenStopped ==
    \A t \in DOMAIN task :
        (~listenersNil /\ task[t].pc \in {"exited", "panicked"}) => t[1] \in cancelled

\* C8: the step in which a fetch returns to a task whose run was stopped
\* ends the task, and dispatches, caches and delivers nothing.
C8_StopDuringFetchDropsResult ==
    [][\A t \in DOMAIN task :
          (task[t].pc = "fetching" /\ t[1] \in cancelled /\ task'[t] # task[t]) =>
              /\ task'[t].pc = "exited"
              /\ dispatched' = dispatched
              /\ cache' = cache
              /\ received' = received]_vars

\* C8, witness: the only run made two fetches and was stopped; its task has
\* ended and only the first fetch's event was dispatched.
C8_Witness ==
    /\ started = 1
    /\ cancelled = {1}
    /\ polls = 2
    /\ \A t \in DOMAIN task : task[t].pc = "exited"
    /\ Len(dispatched) = 1
    /\ \A l \in Listeners : lstate[l] = "added" /\ Len(received[l]) = 1

\* C33, as stated: once Stop has returned, no listener receives an event
\* from a task of the run it stopped, wherever in its iteration the task
\* was: no step of a task whose run is cancelled changes what the listeners
\* have received.
C33_NoEventAfterStop ==
    [][\A t \in DOMAIN task :
          (t[1] \in cancelled /\ task'[t] # task[t]) => received' = received]_vars

\* C33, the tasks that are not past the check of their context: a task that
\* is fetching, or waiting for its timer, when its run is stopped delivers
\* nothing any more.
C33_NoEventUnlessPastCheck ==
    [][\A t \in DOMAIN task :
          (t[1] \in cancelled /\ task'[t] # task[t] /\ task[t].pc # "dispatch") =>
              received' = received]_vars

\* C35, as stated: with no listener ever registered (rl.listeners is still
\* nil) no task fails: its dispatch does nothing and the task goes on to
\* its next poll.
C35_NoListenerPollsGoOn ==
    \A t \in DOMAIN task : listenersNil => task[t].pc # "panicked"

\* C35, what the code keeps: once a listener was registered, cancelled or
\* not, a task with a source whose interval computation does not fail
\* gets past its dispatch.
C35_RegisteredPollsGoOn ==
    [][\A t \in DOMAIN task :
          (/\ ~listenersNil
           /\ task[t].pc = "dispatch"
           /\ task'[t].pc = "panicked")
          => computeNextRefresh(Source(t[2]), task[t].prevMeta, task[t].err) = {}]_vars

LatestAtRegistration(l) ==
    {dispatched[i] : i \in {i \in 1..regAt[l] :
        \A j \in (i + 1)..regAt[l] : dispatched[j].URI # dispatched[i].URI}}

C10_EventsInIterationOrder ==
    \A l \in Listeners :
        \A i, j \in DOMAIN received[l] :
            (/\ i < j
             /\ received[l][i].run = received[l][j].run
             /\ received[l][i].URI = received[l][j].URI)
                => received[l][i].iter < received[l][j].iter

\* C10, witness: a listener has received the events of the first and the
\* second iteration of a task, in this order.
C10_Witness ==
    \E l \in Listeners :
        /\ Len(received[l]) = 2
        /\ received[l][1].run = received[l][2].run
        /\ received[l][1].iter = 1
        /\ received[l][2].iter = 2

\* C11: in every dispatched event, the key IDs of the new list are among
\* those of the key set, and no key ID of the deleted list is.
C11_NewInKeysDeletedNot ==
    \A i \in DOMAIN dispatched :
        LET e == dispatched[i] IN
        /\ KeyIDs(e.New) \subseteq KeyIDs(e.Keys)
        /\ KeyIDs(e.Deleted) \cap KeyIDs(e.Keys) = {}

\* C11, witness: an event whose key set is A and B, with B new, follows an
\* event with the key A; the event before that one dropped B.
C11_Witness ==
    /\ Len(dispatched) = 3
    /\ dispatched[2].Keys = <<Key("A", 1)>>
    /\ dispatched[2].Deleted = <<Key("B", 1)>>
    /\ dispatched[3].Keys = <<Key("A", 1), Key("B", 1)>>
    /\ dispatched[3].New = <<Key("B", 1)>>
    /\ dispatched[3].Deleted = <<>>

\* C12: the new and deleted lists of a successful poll are the difference
\* between its key set and the key set of the task's last successful poll
\* before it (the empty set when there is none), whatever failed polls lie
\* in between.
C12_ChangesAgainstLastSuccess ==
    \A t \in Tasks :
        LET es == EventsOf(t[1], t[2]) IN
        \A n \in DOMAIN es :
            es[n].Err = NoErr =>
                /\ KeyIDs(es[n].New) =
                       KeyIDs(es[n].Keys) \ KeyIDs(LastGoodKeys(es, n))
                /\ KeyIDs(es[n].Deleted) =
                       KeyIDs(LastGoodKeys(es, n)) \ KeyIDs(es[n].Keys)

\* C12, witness: a task served A, then failed, then served B: its third
\* event reports B new and A deleted.
C12_Witness ==
    \E t \in Tasks :
        LET es == EventsOf(t[1], t[2]) IN
        /\ Len(es) = 3
        /\ es[1].Err = NoErr /\ es[1].Keys = <<Key("A", 1)>>
        /\ es[2].Err = ErrFetch /\ es[2].Keys = <<Key("A", 1)>>
        /\ es[3].Err = NoErr /\ es[3].Keys = <<Key("B", 1)>>
        /\ es[3].New = <<Key("B", 1)>>
        /\ es[3].Deleted = <<Key("A", 1)>>

\* C13, as stated: a poll answered 304 Not Modified leaves the task's
\* metadata and prevKeys as the previous iteration left them, and its event
\* carries a copy of prevKeys with empty new and deleted lists.  Stated for
\* the polls that follow a successful one, whose keys and metadata are there
\* to be kept.
C13_NotModifiedKeepsState ==
    [][\A t \in DOMAIN task, out \in NotModifiedOutcomes :
           (FetchReturn(t, out) /\ task'[t].pc = "dispatch" /\ task[t].prevKeys # <<>>) =>
               /\ task'[t].prevMeta = task[t].prevMeta
               /\ task'[t].prevKeys = task[t].prevKeys
               /\ task'[t].event.Keys = task[t].prevKeys
               /\ task'[t].event.New = <<>>
               /\ task'[t].event.Deleted = <<>>]_vars

\* C30: the metadata a task passes to Fetch is its prevMeta when the loop
\* starts over.  It is the zero ContentMeta on the first poll of a task; a
\* failed poll leaves the zero ContentMeta, whatever metadata came with the
\* error, and a successful poll leaves the metadata it returned; neither the
\* dispatch of the event nor the next call of Fetch changes it.
C30_MetaPassedToFetch ==
    [][\A t \in DOMAIN task' :
           IF t \notin DOMAIN task
           THEN task'[t].prevMeta = ZeroMeta
           ELSE /\ \A out \in TaskFetchOutcomes :
                       (FetchReturn(t, out) /\ task'[t].pc = "dispatch") =>
                           task'[t].prevMeta = IF out.err = NoErr THEN out.meta ELSE ZeroMeta
                /\ (task[t].pc # "fetching" /\ task'[t].pc # "exited") =>
                       task'[t].prevMeta = task[t].prevMeta]_vars

\* C30, witness: the third poll of a task is under way with the metadata of
\* its second poll, which succeeded after the first one failed with
\* metadata of its own.
C30_Witness ==
    \E t \in Tasks :
        LET es == EventsOf(t[1], t[2]) IN
        /\ task[t].pc = "fetching"
        /\ task[t].iter = 3
        /\ Len(es) = 2
        /\ es[1].Err = ErrParse
        /\ es[2].Err = NoErr /\ Len(es[2].Keys) = 1
        /\ task[t].prevMeta = Meta(0)

\* Go's order of the key IDs of the model: the position of the ID in this
\* list ("A" < "B" < "a" < "b" < "c" as byte strings).
KeyIDOrder == <<"A", "B", "a", "b", "c">>

\* Keys.Less on two keys: a key without an ID is never less, any key with
\* an ID is less than one without, otherwise the IDs are compared.
Less(left, right) ==
    IF left.keyID = "" THEN FALSE
    ELSE IF right.keyID = "" THEN TRUE
    ELSE (CHOOSE i \in DOMAIN KeyIDOrder : KeyIDOrder[i] = left.keyID)
            < (CHOOSE i \in DOMAIN KeyIDOrder : KeyIDOrder[i] = right.keyID)

\* ks is in the order sort.Sort(Keys) leaves: no key is less than one
\* before it.
IsSorted(ks) == \A i, j \in DOMAIN ks : i < j => ~Less(ks[j], ks[i])

\* C14, as stated: the keys, new and deleted lists of every dispatched event
\* are in ascending order of key ID.
C14_EventListsSorted ==
    \A i \in DOMAIN dispatched :
        /\ IsSorted(dispatched[i].Keys)
        /\ IsSorted(dispatched[i].New)
        /\ IsSorted(dispatched[i].Deleted)

\* C15: a Resolve that returns without error returns a key with the
\* requested key ID, unless the Fetcher returned exactly one key, which is
\* returned as it is.  By the way the call got its key: the owner selects it
\* from what the Fetcher returned and returns it unchanged; a call that finds
\* the key ID in the KeyRing returns the key stored under it; a waiter
\* returns the key its owner selected.
C15_ResolvedKeyMatches ==
    [][\A c \in Callers :
          /\ \A out \in ResolveFetchOutcomes :
                (FetchKeyReturn(c, out) /\ call'[c].err = NoErr) =>
                    \/ call'[c].k.keyID = call[c].keyID
                    \/ Len(out.keys) = 1 /\ call'[c].k = out.keys[1]
          /\ call[c].pc \in {"cleanup", "dispatch"} =>
                call'[c].k = call[c].k /\ call'[c].err = call[c].err
          /\ (call[c].pc \in {"idle", "lock"} /\ call'[c].pc = "done") =>
                call'[c].err = NoErr /\ call'[c].k.keyID = call'[c].keyID
          /\ (call[c].pc = "woken" /\ call'[c].pc = "done" /\ call'[c].err = NoErr) =>
                \E d \in Callers :
                    /\ call[d].request = call[c].request
                    /\ ~call[d].wait
                    /\ call'[c].k = call[d].k]_vars

\* C15, witness: two calls for "a" have fetched and returned without error,
\* one with a key "a", the other with the single key "b" of its document.
C15_Witness ==
    \E c, d \in Callers :
        /\ call[c].pc = "done" /\ call[c].fetched /\ call[c].err = NoErr
        /\ call[c].keyID = "a" /\ call[c].k = Key("a", 1)
        /\ call[d].pc = "done" /\ call[d].fetched /\ call[d].err = NoErr
        /\ call[d].keyID = "a" /\ call[d].k = Key("b", 1)

\* The fetched keys hold no key for keyID as fetchKey sees it: there is no
\* key, or there are two or more and none has the key ID.
NoKeyFor(keys, keyID) ==
    \/ Len(keys) = 0
    \/ Len(keys) >= 2 /\ \A i \in DOMAIN keys : keys[i].keyID # keyID

\* C16: when the Fetcher returns no key, or two or more keys none of which
\* has the requested key ID, Resolve returns ErrKeyNotFound and no key: the
\* owner's fetchKey yields them and the owner returns them unchanged.
C16_NotFoundWithoutMatch ==
    [][\A c \in Callers :
          /\ \A out \in ResolveFetchOutcomes :
                (FetchKeyReturn(c, out) /\ out.err = NoErr
                    /\ NoKeyFor(out.keys, call[c].keyID)) =>
                    /\ call'[c].k = NoKey
                    /\ call'[c].err = ErrKeyNotFound
          /\ (call[c].pc \in {"cleanup", "dispatch"} /\ call[c].err = ErrKeyNotFound) =>
                call'[c].k = NoKey /\ call'[c].err = ErrKeyNotFound]_vars

\* C16, witness: a call for "a" whose fetch succeeded has returned
\* ErrKeyNotFound and no key; the KeyRing, which callers share, is empty.
C16_Witness ==
    \E c \in Callers :
        /\ call[c].pc = "done" /\ call[c].fetched /\ call[c].keyID = "a"
        /\ call[c].k = NoKey /\ call[c].err = ErrKeyNotFound
        /\ keyRing = EmptyMap

\* C17, as stated: with a KeyRing, once Resolve(K) has returned a key k
\* without error, KeyRing.Get(K) returns k.  (Nothing removes keys here.)
C17_CachedUnderRequestedID ==
    hasKeyRing =>
        \A c \in Callers :
            (call[c].pc = "done" /\ call[c].err = NoErr) =>
                keyRingGet(keyRing, call[c].keyID) = [k |-> call[c].k, ok |-> TRUE]

\* C17, amended: with a KeyRing, once Resolve(K) has returned a key k
\* without error, KeyRing.Get of k's own key ID returns k; so Get(K) returns
\* k whenever k's key ID is K.
C17_CachedUnderOwnID ==
    hasKeyRing =>
        \A c \in Callers :
            (call[c].pc = "done" /\ call[c].err = NoErr) =>
                /\ keyRingGet(keyRing, call[c].k.keyID) = [k |-> call[c].k, ok |-> TRUE]
                /\ call[c].k.keyID = call[c].keyID =>
                      keyRingGet(keyRing, call[c].keyID) = [k |-> call[c].k, ok |-> TRUE]

\* C17, witness: with a KeyRing, one call fetched the key "a" and returned
\* it, a later call got it from the KeyRing without fetching, and the
\* KeyRing still returns it.
C17_Witness ==
    /\ hasKeyRing
    /\ \E c, d \in Callers :
          /\ call[c].pc = "done" /\ call[c].fetched /\ call[c].err = NoErr
          /\ call[c].keyID = "a" /\ call[c].k = Key("a", 1)
          /\ call[d].pc = "done" /\ ~call[d].fetched /\ ~call[d].wait
          /\ call[d].keyID = "a" /\ call[d].k = Key("a", 1)
    /\ keyRingGet(keyRing, "a") = [k |-> Key("a", 1), ok |-> TRUE]

\* C26: once the owner of a request has left the critical section that
\* follows its fetchKey (and so once its Resolve has returned), the pending
\* table holds no entry that leads to that request, whatever fetchKey
\* yielded.
C26_PendingCleanedOnEveryOutcome ==
    \A c \in Callers :
        (~call[c].wait /\ call[c].request # 0 /\ call[c].pc \in {"dispatch", "done"}) =>
            \A x \in DOMAIN pending : pending[x] # call[c].request

\* C26, witness: three owners have returned, one with the expansion error,
\* one with the fetch error (which a cancelled context is one case of), one
\* with ErrKeyNotFound, and the table is empty.
C26_Witness ==
    /\ \E c, d, e \in Callers :
          /\ \A x \in {c, d, e} : call[x].pc = "done" /\ ~call[x].wait /\ call[x].request # 0
          /\ call[c].err = ErrExpand
          /\ call[d].err = ErrFetch
          /\ call[e].err = ErrKeyNotFound
    /\ DOMAIN pending = {}

\* C27: a caller that is calling the Fetcher, or visiting the listeners
\* with its event, does not hold the resolve lock; nor does a caller that is
\* about to do so, waits for a fetch, or has returned.  The lock is held
\* only inside the two critical sections (the KeyRing re-check with the
\* table lookup and insertion, and the removal from the table).
C27_LockNotHeldOutsideTable ==
    \A c \in Callers :
        call[c].pc \in {"owner", "fetching", "cleanup", "dispatch", "select",
                        "blocked", "woken", "done"} =>
            resolveLock # c

\* C27, witness: while one caller visits the listeners and a second is
\* inside the Fetcher, a third has gone through the locked section and waits
\* for the second's fetch.
C27_Witness ==
    \E c, d, e \in Callers :
        /\ call[c].pc = "dispatch"
        /\ call[d].pc = "fetching"
        /\ call[e].wait /\ call[e].pc \in {"select", "blocked"}
        /\ call[e].request = call[d].request
        /\ resolveLock = 0

\* The ResolveEvents dispatched by caller c.
EventsBy(c) == {e \in resolveEvents : e.by = c}

\* C28: a caller that invoked the Fetcher has dispatched, once it has
\* returned, exactly one ResolveEvent, with the expanded URI, the requested
\* key ID and the key and error it returns, and none before its fetch and
\* cleanup are over; a caller served as a waiter or from the KeyRing
\* dispatches none.
C28_OneEventPerFetch ==
    \A c \in Callers :
        /\ (call[c].fetched /\ call[c].pc = "done") =>
              EventsBy(c) = {[by |-> c, URI |-> Expand(call[c].keyID),
                              KeyID |-> call[c].keyID,
                              Key |-> call[c].k, Err |-> call[c].err]}
        /\ (call[c].fetched /\ call[c].pc # "done") => EventsBy(c) = {}
        /\ call[c].wait => EventsBy(c) = {}
        /\ (call[c].pc = "done" /\ call[c].request = 0) => EventsBy(c) = {}

\* C28, witness: with a KeyRing, one caller fetched the key "a" and
\* dispatched its event, a second was served as its waiter and a third from
\* the KeyRing; there is the one event.
C28_Witness ==
    /\ hasKeyRing
    /\ \E c, d, e \in Callers :
          /\ \A x \in {c, d, e} : call[x].pc = "done" /\ call[x].k = Key("a", 1)
          /\ call[c].fetched
          /\ call[d].wait /\ call[d].request = call[c].request
          /\ call[e].request = 0
          /\ resolveEvents = {[by |-> c, URI |-> Expand("a"), KeyID |-> "a",
                               Key |-> Key("a", 1), Err |-> NoErr]}

\* The caller went through the locked section of Resolve, found its key ID
\* neither in the KeyRing nor in the pending table, and has left fetchKey.
FetchedForItself(c) ==
    ~call[c].wait /\ call[c].request # 0 /\ call[c].pc \in {"cleanup", "dispatch", "done"}

\* C29, as stated: a Resolve(K) that finds K neither in the KeyRing nor in
\* flight always invokes the Fetcher.
C29_AlwaysFetches ==
    \A c \in Callers : FetchedForItself(c) => call[c].fetched

\* C29, amended: a Resolve(K) that finds K neither in the KeyRing nor in
\* flight becomes the owner of a new request, with no key of an earlier
\* resolve, and leaves fetchKey only after invoking the Fetcher or with the
\* error of the URI expansion.
C29_FetchesUnlessExpandFails ==
    [][\A c \in Callers :
          /\ (ResolveLocked(c) /\ ~checkKeyRing(call[c].keyID).ok
                /\ call[c].keyID \notin DOMAIN pending) =>
                /\ call'[c].pc = "owner"
                /\ call'[c].request = Len(requests) + 1
                /\ call'[c].k = NoKey
          /\ FetchedForItself(c)' =>
                (call'[c].fetched \/ call'[c].err = ErrExpand)]_vars

\* C29, witness: without a KeyRing, a first call fetched "a" and returned
\* it, a second call made its own request and fetch, which failed, and a third
\* call has made its own request and is inside the Fetcher.
C29_Witness ==
    /\ ~hasKeyRing
    /\ \E c, d, e \in Callers :
          /\ call[c].pc = "done" /\ call[c].fetched /\ call[c].request = 1
          /\ call[c].err = NoErr /\ call[c].k = Key("a", 1)
          /\ call[d].pc = "done" /\ call[d].fetched /\ call[d].request = 2
          /\ call[d].err = ErrFetch
          /\ call[e].pc = "fetching" /\ call[e].request = 3

\* C32, as stated: a caller whose own context is never cancelled does not
\* fail because the context of another caller was cancelled: a waiter that
\* returned an error with its context intact did not wait on an owner whose
\* fetch ended with the error of the owner's cancelled context.
C32_OthersCancelHarmless ==
    \A c \in Callers :
        (call[c].pc = "done" /\ call[c].wait /\ ~call[c].ctxDone /\ call[c].err # NoErr) =>
            call[Owner(call[c].request)].err # ErrCtx

\* C32, the waiters alone: a caller whose context is intact returns what the
\* owner of its request got, whatever other waiters on the request had
\* their contexts cancelled.
C32_WaiterCancelHarmless ==
    \A c \in Callers :
        (call[c].pc = "done" /\ call[c].wait /\ ~call[c].ctxDone) =>
            LET o == Owner(call[c].request) IN
            IF call[o].err = NoErr
            THEN call[c].err = NoErr /\ call[c].k = call[o].k
            ELSE call[c].err = ErrKeyNotFound

\* C40: the table entry of a request is gone by the time its channel is
\* closed: a caller that passes the critical section of Resolve is never
\* handed a request whose channel is closed, and when every earlier request
\* for its key ID is complete it becomes the owner of a new request and
\* fetches afresh.
C40_CompletedRequestNeverJoined ==
    [][\A c \in Callers :
          (call[c].pc = "lock" /\ call'[c].pc \in {"select", "owner"}) =>
              /\ ~requests'[call'[c].request].done
              /\ (\A r \in DOMAIN requests :
                      requests[r].keyID = call[c].keyID => requests[r].done)
                  => /\ call'[c].pc = "owner"
                     /\ call'[c].request = Len(requests) + 1
                     /\ call[c].keyID \in DOMAIN pending'
                     /\ pending'[call[c].keyID] = call'[c].request]_vars

\* C40, witness: the owner of a request has completed it without a key
\* reaching the KeyRing, and a caller that came for the same key ID after
\* that owns a second request and is fetching for it.
C40_Witness ==
    \E c, d \in Callers :
        /\ call[c].pc \in {"dispatch", "done"} /\ ~call[c].wait /\ call[c].request # 0
        /\ requests[call[c].request].done
        /\ call[c].err # NoErr
        /\ call[d].pc = "fetching" /\ ~call[d].wait
        /\ call[d].keyID = call[c].keyID
        /\ call[d].request > call[c].request
        /\ pending = [x \in {call[d].keyID} |-> call[d].request]

C31_EntryRemovedWhenDone ==
    \A x \in DOMAIN pending : ~requests[pending[x]].done

\* C31, what ResolveKeyID does instead: once made, the request of a key ID
\* stays in the table, and every later call that misses the KeyRing waits
\* on it.
C31_EntryNeverRemoved ==
    [][\A x \in DOMAIN pending : x \in DOMAIN pending' /\ pending'[x] = pending[x]]_vars

(***************************************************************************)
(*                               KEYRING                                   *)
(***************************************************************************)
\* The goroutines that call the KeyRing, each once: refresh tasks delivering
\* an event, and clients calling Get, Len, Add or Remove.
KeyRingCallers == 1..MaxKeyRingCalls

\* The key IDs clients ask for and remove.
KeyRingKeyIDs == {"A", "B"}

\* The keys clients add: a key that replaces A's material, and a key
\* without a key ID.
KeyRingAdded == {Key("A", 2), Key("", 1)}

\* The initial keys given to NewKeyRing.
InitialKeys ==
    { <<>>,
      <<Key("", 1), Key("A", 1)>>,
      <<Key("A", 1), Key("B", 1)>> }

\* The events delivered to the KeyRing: a failed poll that carries the
\* previous keys, an event without keys and deleted keys, and changes: keys
\* only, keys and deleted keys, deleted keys only, a key without a key ID.
KeyRingEvents ==
    { [NoEvent EXCEPT !.Err = ErrFetch, !.Keys = <<Key("B", 1)>>],
      [NoEvent EXCEPT !.New = <<Key("B", 1)>>],
      [NoEvent EXCEPT !.Keys = <<Key("A", 2), Key("B", 1)>>, !.New = <<Key("B", 1)>>],
      [NoEvent EXCEPT !.Keys = <<Key("B", 1)>>, !.Deleted = <<Key("A", 1)>>],
      [NoEvent EXCEPT !.Deleted = <<Key("B", 1)>>],
      [NoEvent EXCEPT !.Keys = <<Key("", 1), Key("B", 1)>>] }

IdleKeyRingCall == [op |-> "none", pc |-> "idle", event |-> NoEvent, keyID |-> "",
                    key |-> NoKey, i |-> 0, start |-> EmptyMap,
                    k |-> NoKey, ok |-> FALSE, n |-> 0]

\* NewKeyRing: the initial keys that have a key ID, the later of two keys
\* with the same ID.
RECURSIVE NewKeyRing(_)
NewKeyRing(initialKeys) ==
    IF initialKeys = <<>> THEN EmptyMap
    ELSE LET kr == NewKeyRing(SubSeq(initialKeys, 1, Len(initialKeys) - 1))
             k == initialKeys[Len(initialKeys)]
         IN IF k.keyID # ""
            THEN [x \in DOMAIN kr \cup {k.keyID} |-> IF x = k.keyID THEN k ELSE kr[x]]
            ELSE kr

KeyRingInit ==
    /\ krLock = [w |-> 0, r |-> {}]
    /\ krCall = [p \in KeyRingCallers |-> IdleKeyRingCall]

\* A mutant of rwLockFree: Lock does not wait for anyone.
rwLockIgnored(lock) == TRUE

\* kr.lock.Lock() returns only while no writer and no reader holds the lock.
rwLockFree(lock) == lock.w = 0 /\ lock.r = {}

\* kr.lock.RLock() returns only while no writer holds the lock.
rwRLockFree(lock) == lock.w = 0

\* A mutant of isChange: an event without keys is ignored.
isChangeKeysOnly(event) == event.Err = NoErr /\ Len(event.Keys) # 0

\* OnRefreshEvent, the negation of its opening test: the event represents a
\* change to the set of keys.
isChange(event) ==
    ~(event.Err # NoErr \/ (Len(event.Keys) = 0 /\ Len(event.Deleted) = 0))

\* OnRefreshEvent, the body of its first loop: kr.keys[keyID] = key for a key
\* with a key ID.
upsert(keys, key) ==
    IF key.keyID # ""
    THEN [x \in DOMAIN keys \cup {key.keyID} |-> IF x = key.keyID THEN key ELSE keys[x]]
    ELSE keys

\* delete(kr.keys, keyID)
delete(keys, keyID) == [x \in DOMAIN keys \ {keyID} |-> keys[x]]

\* OnRefreshEvent: where the call stands after the i-th key of its current
\* loop ("upsert", or "delete" with i counting from 0 again).
afterStep(event, loop, i) ==
    IF loop = "upsert" /\ i < Len(event.Keys) THEN [pc |-> "upsert", i |-> i + 1]
    ELSE IF loop = "upsert" /\ Len(event.Deleted) > 0 THEN [pc |-> "delete", i |-> 1]
    ELSE IF loop = "delete" /\ i < Len(event.Deleted) THEN [pc |-> "delete", i |-> i + 1]
    ELSE [pc |-> "unlock", i |-> 0]

\* The callers are interchangeable, so they are numbered in the order of
\* their calls.
KeyRingIdle(p) ==
    /\ krCall[p].pc = "idle"
    /\ \A q \in KeyRingCallers : q < p => krCall[q].pc # "idle"

\* OnRefreshEvent with an event that is no change: it returns at once.
OnRefreshEventReturn(p, event) ==
    /\ KeyRingIdle(p)
    /\ ~isChange(event)
    /\ krCall' = [krCall EXCEPT ![p] = [@ EXCEPT !.op = "OnRefreshEvent", !.pc = "done",
                                                  !.event = event, !.start = keyRing]]
    /\ UNCHANGED <<krLock, resolverVars, refresherVars, fetcherVars, listenerVars, callVars>>

\* OnRefreshEvent with a change: kr.lock.Lock().
OnRefreshEventLock(p, event) ==
    /\ KeyRingIdle(p)
    /\ isChange(event)
    /\ rwLockFree(krLock)
    /\ krLock' = [krLock EXCEPT !.w = p]
    /\ LET next == afterStep(event, "upsert", 0) IN
       krCall' = [krCall EXCEPT ![p] = [@ EXCEPT !.op = "OnRefreshEvent", !.pc = next.pc,
                                                 !.i = next.i, !.event = event,
                                                 !.start = keyRing]]
    /\ UNCHANGED <<resolverVars, refresherVars, fetcherVars, listenerVars, callVars>>

\* OnRefreshEvent, one round of the loop over event.Keys.
OnRefreshEventUpsert(p) ==
    /\ krCall[p].op = "OnRefreshEvent"
    /\ krCall[p].pc = "upsert"
    /\ keyRing' = upsert(keyRing, krCall[p].event.Keys[krCall[p].i])
    /\ LET next == afterStep(krCall[p].event, "upsert", krCall[p].i) IN
       krCall' = [krCall EXCEPT ![p].pc = next.pc, ![p].i = next.i]
    /\ UNCHANGED <<hasKeyRing, resolveLock, pending, requests, call, resolveEvents>>
    /\ UNCHANGED <<krLock, refresherVars, fetcherVars, listenerVars, callVars>>

\* OnRefreshEvent, one round of the loop over event.Deleted.
OnRefreshEventDelete(p) ==
    /\ krCall[p].op = "OnRefreshEvent"
    /\ krCall[p].pc = "delete"
    /\ keyRing' = delete(keyRing, krCall[p].event.Deleted[krCall[p].i].keyID)
    /\ LET next == afterStep(krCall[p].event, "delete", krCall[p].i) IN
       krCall' = [krCall EXCEPT ![p].pc = next.pc, ![p].i = next.i]
    /\ UNCHANGED <<hasKeyRing, resolveLock, pending, requests, call, resolveEvents>>
    /\ UNCHANGED <<krLock, refresherVars, fetcherVars, listenerVars, callVars>>

\* OnRefreshEvent returns: the deferred kr.lock.Unlock().
OnRefreshEventUnlock(p) ==
    /\ krCall[p].op = "OnRefreshEvent"
    /\ krCall[p].pc = "unlock"
    /\ krLock' = [krLock EXCEPT !.w = 0]
    /\ krCall' = [krCall EXCEPT ![p].pc = "done"]
    /\ UNCHANGED <<resolverVars, refresherVars, fetcherVars, listenerVars, callVars>>

\* Get: kr.lock.RLock().
GetRLock(p, keyID) ==
    /\ KeyRingIdle(p)
    /\ rwRLockFree(krLock)
    /\ krLock' = [krLock EXCEPT !.r = @ \cup {p}]
    /\ krCall' = [krCall EXCEPT ![p] = [@ EXCEPT !.op = "Get", !.pc = "read",
                                                 !.keyID = keyID]]
    /\ UNCHANGED <<resolverVars, refresherVars, fetcherVars, listenerVars, callVars>>

\* Get: the read of kr.keys[keyID], then RUnlock and the return.
GetRUnlock(p) ==
    /\ krCall[p].op = "Get"
    /\ krCall[p].pc = "read"
    /\ LET got == keyRingGet(keyRing, krCall[p].keyID) IN
       krCall' = [krCall EXCEPT ![p].pc = "done", ![p].k = got.k, ![p].ok = got.ok,
                                ![p].start = keyRing]
    /\ krLock' = [krLock EXCEPT !.r = @ \ {p}]
    /\ UNCHANGED <<resolverVars, refresherVars, fetcherVars, listenerVars, callVars>>

\* Len: kr.lock.RLock().
LenRLock(p) ==
    /\ KeyRingIdle(p)
    /\ rwRLockFree(krLock)
    /\ krLock' = [krLock EXCEPT !.r = @ \cup {p}]
    /\ krCall' = [krCall EXCEPT ![p] = [@ EXCEPT !.op = "Len", !.pc = "read"]]
    /\ UNCHANGED <<resolverVars, refresherVars, fetcherVars, listenerVars, callVars>>

\* Len: the read of len(kr.keys), then RUnlock and the return.
LenRUnlock(p) ==
    /\ krCall[p].op = "Len"
    /\ krCall[p].pc = "read"
    /\ krCall' = [krCall EXCEPT ![p].pc = "done", ![p].n = Cardinality(DOMAIN keyRing),
                                ![p].start = keyRing]
    /\ krLock' = [krLock EXCEPT !.r = @ \ {p}]
    /\ UNCHANGED <<resolverVars, refresherVars, fetcherVars, listenerVars, callVars>>

\* Add of one key: kr.lock.Lock().
AddLock(p, key) ==
    /\ KeyRingIdle(p)
    /\ rwLockFree(krLock)
    /\ krLock' = [krLock EXCEPT !.w = p]
    /\ krCall' = [krCall EXCEPT ![p] = [@ EXCEPT !.op = "Add", !.pc = "store", !.key = key,
                                                 !.start = keyRing]]
    /\ UNCHANGED <<resolverVars, refresherVars, fetcherVars, listenerVars, callVars>>

\* Add: the loop over its one key, then the deferred Unlock and the return
\* of the count.
AddUnlock(p) ==
    /\ krCall[p].op = "Add"
    /\ krCall[p].pc = "store"
    /\ keyRing' = keyRingAdd(keyRing, krCall[p].key)
    /\ krCall' = [krCall EXCEPT ![p].pc = "done",
                                ![p].n = IF krCall[p].key.keyID # "" THEN 1 ELSE 0]
    /\ krLock' = [krLock EXCEPT !.w = 0]
    /\ UNCHANGED <<hasKeyRing, resolveLock, pending, requests, call, resolveEvents>>
    /\ UNCHANGED <<refresherVars, fetcherVars, listenerVars, callVars>>

\* Remove of one key ID: kr.lock.Lock().
RemoveLock(p, keyID) ==
    /\ KeyRingIdle(p)
    /\ rwLockFree(krLock)
    /\ krLock' = [krLock EXCEPT !.w = p]
    /\ krCall' = [krCall EXCEPT ![p] = [@ EXCEPT !.op = "Remove", !.pc = "store",
                                                 !.keyID = keyID, !.start = keyRing]]
    /\ UNCHANGED <<resolverVars, refresherVars, fetcherVars, listenerVars, callVars>>

\* Remove: the loop over its one key ID, then the deferred Unlock and the
\* return of the count.
RemoveUnlock(p) ==
    /\ krCall[p].op = "Remove"
    /\ krCall[p].pc = "store"
    /\ keyRing' = IF krCall[p].keyID \in DOMAIN keyRing
                  THEN delete(keyRing, krCall[p].keyID) ELSE keyRing
    /\ krCall' = [krCall EXCEPT ![p].pc = "done",
                                ![p].n = IF krCall[p].keyID \in DOMAIN keyRing THEN 1 ELSE 0]
    /\ krLock' = [krLock EXCEPT !.w = 0]
    /\ UNCHANGED <<hasKeyRing, resolveLock, pending, requests, call, resolveEvents>>
    /\ UNCHANGED <<refresherVars, fetcherVars, listenerVars, callVars>>

KeyRingNext ==
    \/ \E p \in KeyRingCallers, event \in KeyRingEvents : OnRefreshEventReturn(p, event)
    \/ \E p \in KeyRingCallers, event \in KeyRingEvents : OnRefreshEventLock(p, event)
    \/ \E p \in KeyRingCallers : OnRefreshEventUpsert(p)
    \/ \E p \in KeyRingCallers : OnRefreshEventDelete(p)
    \/ \E p \in KeyRingCallers : OnRefreshEventUnlock(p)
    \/ \E p \in KeyRingCallers, keyID \in KeyRingKeyIDs : GetRLock(p, keyID)
    \/ \E p \in KeyRingCallers : GetRUnlock(p)
    \/ \E p \in KeyRingCallers : LenRLock(p)
    \/ \E p \in KeyRingCallers : LenRUnlock(p)
    \/ \E p \in KeyRingCallers, key \in KeyRingAdded : AddLock(p, key)
    \/ \E p \in KeyRingCallers : AddUnlock(p)
    \/ \E p \in KeyRingCallers, keyID \in KeyRingKeyIDs : RemoveLock(p, keyID)
    \/ \E p \in KeyRingCallers : RemoveUnlock(p)

(***************************************************************************)
(* KeyRing: what the claims speak of.                                      *)
(***************************************************************************)
\* The keys a ring that held start holds once every key of event.Keys with
\* a key ID has been upserted and every key ID of event.Deleted deleted.
Applied(start, event) ==
    LET ids == KeyIDs(event.Keys) \ {""}
        last(x) == event.Keys[Max({i \in DOMAIN event.Keys : event.Keys[i].keyID = x})]
    IN [x \in (DOMAIN start \cup ids) \ KeyIDs(event.Deleted) |->
           IF x \in ids THEN last(x) ELSE start[x]]

\* The event carries an error, or neither keys nor deleted keys.
Ignorable(event) ==
    event.Err # NoErr \/ (event.Keys = <<>> /\ event.Deleted = <<>>)

\* C18: OnRefreshEvent with an event that has an error, or neither keys nor
\* deleted keys, returns without touching the lock or the keys; with any
\* other event it takes the lock, and when it releases it the ring holds the
\* keys it held at the lock with every key of event.Keys that has a key ID
\* upserted and every key ID of event.Deleted deleted.
C18_OnRefreshEventApplies ==
    [][\A p \in KeyRingCallers :
          /\ (KeyRingIdle(p) /\ krCall'[p].op = "OnRefreshEvent") =>
                IF Ignorable(krCall'[p].event)
                THEN krCall'[p].pc = "done" /\ keyRing' = keyRing /\ krLock' = krLock
                ELSE krCall'[p].pc # "done" /\ krLock'.w = p
          /\ OnRefreshEventUnlock(p) =>
                keyRing = Applied(krCall[p].start, krCall[p].event)]_vars

\* C18, witness: a ring with the keys A and B received the event with the
\* key B and the deleted key A and was left with B alone; it then received
\* the event of a failed poll and was left as it was.
C18_Witness ==
    \E p, q \in KeyRingCallers :
        /\ krCall[p].op = "OnRefreshEvent" /\ krCall[p].pc = "done"
        /\ krCall[p].event.Keys = <<Key("B", 1)>>
        /\ krCall[p].event.Deleted = <<Key("A", 1)>>
        /\ DOMAIN krCall[p].start = {"A", "B"}
        /\ krCall[q].op = "OnRefreshEvent" /\ krCall[q].pc = "done"
        /\ krCall[q].event.Err = ErrFetch
        /\ DOMAIN krCall[q].start = {"B"}
        /\ DOMAIN keyRing = {"B"}

\* The caller is between the Lock and the Unlock of OnRefreshEvent.
Updating(p) ==
    krCall[p].op = "OnRefreshEvent" /\ krCall[p].pc \in {"upsert", "delete", "unlock"}

\* C19: while a caller applies the upserts and deletes of one event
\* (between the Lock and the Unlock of OnRefreshEvent), it holds the lock
\* alone, and no other caller is at the read of
\* a Get or Len, at the store of an Add or Remove, or inside the update of
\* another event.
C19_EventUpdateAtomic ==
    \A p \in KeyRingCallers :
        Updating(p) =>
            /\ krLock = [w |-> p, r |-> {}]
            /\ \A q \in KeyRingCallers \ {p} : krCall[q].pc \in {"idle", "done"}

\* C19, witness: a Get has found A; an event with the key B and the deleted
\* key A has since been half applied, the ring holding both A and B, while a
\* third caller has yet to be let in.
C19_Witness ==
    \E p, q, r \in KeyRingCallers :
        /\ krCall[q].op = "Get" /\ krCall[q].pc = "done" /\ krCall[q].ok
        /\ krCall[q].k = Key("A", 1)
        /\ Updating(p) /\ krCall[p].pc = "delete"
        /\ krCall[p].event.Deleted = <<Key("A", 1)>>
        /\ DOMAIN krCall[p].start = {"A"}
        /\ DOMAIN keyRing = {"A", "B"}
        /\ krCall[r].pc = "idle"

(***************************************************************************)
(*          A KeyRing subscribed to a Refresher of several sources         *)
(***************************************************************************)
\* The URIs of the configured sources.
SubscribedURIs == {"u1", "u2"}

\* A configured source: the sources differ in their URI only.
SubscribedSource(uri) == [(CHOOSE s \in Sources : TRUE) EXCEPT !.URI = uri]

\* What Fetcher.Fetch may return to a task: either source may serve the key
\* A or the key B, or fail.
SubscribedFetchOutcomes ==
    { [keys |-> <<Key("A", 1)>>, meta |-> Meta(0), err |-> NoErr],
      [keys |-> <<Key("B", 1)>>, meta |-> Meta(0), err |-> NoErr],
      [keys |-> <<>>, meta |-> ZeroMeta, err |-> ErrFetch] }

\* The listener that is the KeyRing, registered before Start, and the
\* listener registered while the tasks run.
RingListener == "l1"
LateListener == "l2"

\* The one caller of Start and Stop.
LifeCaller == 1

\* NewRefresher, then AddListener(keyRing): the list holds the KeyRing, and
\* nothing was cached that could be replayed to it.
SubscribedInit ==
    /\ taskLock = 0
    /\ taskCancel = 0
    /\ tasks = {}
    /\ started = 0
    /\ cancelled = {}
    /\ life = [p \in Procs |-> [pc |-> "idle", ret |-> NoErr]]
    /\ task = [t \in {} |-> NewTask]
    /\ polls = 0
    /\ listenersNil = FALSE
    /\ rlLock = <<>>
    /\ listeners = <<RingListener>>
    /\ cache = [u \in {} |-> NoEvent]
    /\ lstate = [l \in Listeners |-> IF l = RingListener THEN "added" ELSE "new"]
    /\ received = [l \in Listeners |-> <<>>]
    /\ dispatched = <<>>
    /\ regAt = [l \in Listeners |-> 0]

\* Start: a new task context and one new task per source, each with the
\* fresh locals of run; r.taskCancel and r.tasks set; return nil (and unlock).
StartSpawnAll(p) ==
    /\ Alive
    /\ life[p].pc = "startSpawn"
    /\ LET run == started + 1
           new == {<<run, u>> : u \in SubscribedURIs}
       IN /\ started' = run
          /\ task' = [t \in DOMAIN task \cup new |-> IF t \in new THEN NewTask ELSE task[t]]
          /\ taskCancel' = run
          /\ tasks' = new
    /\ life' = [life EXCEPT ![p] = [pc |-> "idle", ret |-> NoErr]]
    /\ taskLock' = 0
    /\ UNCHANGED <<cancelled, polls, listenersNil, rlLock, listeners, cache, lstate, received,
                   dispatched, regAt>>
    /\ UNCHANGED <<resolverVars, keyRingVars, fetcherVars, listenerVars, callVars>>

\* keyRing.OnRefreshEvent, its first loop from the i-th key of event.Keys on.
RECURSIVE upsertFrom(_, _, _)
upsertFrom(keys, list, i) ==
    IF i > Len(list) THEN keys ELSE upsertFrom(upsert(keys, list[i]), list, i + 1)

\* keyRing.OnRefreshEvent, its second loop from the i-th key of event.Deleted
\* on.
RECURSIVE deleteFrom(_, _, _)
deleteFrom(keys, list, i) ==
    IF i > Len(list) THEN keys ELSE deleteFrom(delete(keys, list[i].keyID), list, i + 1)

\* keyRing.OnRefreshEvent, from kr.lock.Lock() to the unlock: the keys of the
\* event are stored, then the deleted keys are removed, whatever source the
\* event is from.
ringOnRefreshEvent(keys, event) ==
    IF isChange(event)
    THEN deleteFrom(upsertFrom(keys, event.Keys, 1), event.Deleted, 1)
    ELSE keys

\* A mutant of rlLockFree: dispatch and addListener do not take rl.lock.
rlLockIgnored == TRUE

\* rl.lock can be taken.
rlLockFree == rlLock = <<>>

\* refreshListeners.dispatch: rl.lock.Lock(), the event is cached, and the
\* walk over rl.listeners begins (it panics when the list is nil).
DispatchLock(t) ==
    /\ Alive
    /\ task[t].pc = "dispatch"
    /\ rlLockFree
    /\ rlLock' = t
    /\ LET event == task[t].event IN
       /\ cache' = [u \in DOMAIN cache \cup {event.URI} |->
                       IF u = event.URI THEN event ELSE cache[u]]
       /\ dispatched' = Append(dispatched, event)
    /\ task' = [task EXCEPT ![t].pc = IF listenersNil THEN "panicked" ELSE "calling"]
    /\ UNCHANGED <<taskLock, taskCancel, tasks, started, cancelled, life, polls, listenersNil,
                   listeners, lstate, received, regAt>>
    /\ UNCHANGED <<hasKeyRing, keyRing, resolveLock, pending, requests, call, resolveEvents>>
    /\ UNCHANGED <<keyRingVars, fetcherVars, listenerVars, callVars>>

\* refreshListeners.dispatch: every listener of the list has been called
\* with the event, the KeyRing among them; the deferred rl.lock.Unlock();
\* then, in run, computeNextRefresh and the new timer.
DispatchReturn(t) ==
    /\ Alive
    /\ task[t].pc = "calling"
    /\ LET event == task[t].event IN
       /\ received' = [l \in Listeners |->
                          IF lstate[l] = "added"
                          THEN onRefreshEvent(received[l], event)
                          ELSE received[l]]
       /\ keyRing' = IF lstate[RingListener] = "added"
                     THEN ringOnRefreshEvent(keyRing, event)
                     ELSE keyRing
    /\ rlLock' = <<>>
    /\ task' = [task EXCEPT ![t].pc =
                   IF computeNextRefresh(SubscribedSource(t[2]), task[t].prevMeta,
                                         task[t].err) = {}
                   THEN "panicked" ELSE "timer"]
    /\ UNCHANGED <<taskLock, taskCancel, tasks, started, cancelled, life, polls, listenersNil,
                   listeners, cache, lstate, dispatched, regAt>>
    /\ UNCHANGED <<hasKeyRing, resolveLock, pending, requests, call, resolveEvents>>
    /\ UNCHANGED <<keyRingVars, fetcherVars, listenerVars, callVars>>

\* refreshListeners.addListener: rl.lock.Lock(), the listener is pushed at
\* the back of the list, and the replay of the cached events to it begins.
AddListenerLock(l) ==
    /\ Alive
    /\ lstate[l] = "new"
    /\ rlLockFree
    /\ rlLock' = <<l>>
    /\ listenersNil' = FALSE
    /\ lstate' = [lstate EXCEPT ![l] = "adding"]
    /\ UNCHANGED <<taskLock, taskCancel, tasks, started, cancelled, life, task, polls,
                   listeners, cache, received, dispatched, regAt>>
    /\ UNCHANGED <<resolverVars, keyRingVars, fetcherVars, listenerVars, callVars>>

\* refreshListeners.addListener: the new listener has been called with every
\* cached event, in one of the orders a range over the cache may take; the
\* deferred rl.lock.Unlock().
AddListenerReturn(l) ==
    /\ Alive
    /\ lstate[l] = "adding"
    /\ listeners' = Append(listeners, l)
    /\ lstate' = [lstate EXCEPT ![l] = "added"]
    /\ \E replay \in addListenerReplay(cache) :
          received' = [received EXCEPT ![l] = @ \o replay]
    /\ regAt' = [regAt EXCEPT ![l] = Len(dispatched)]
    /\ rlLock' = <<>>
    /\ UNCHANGED <<taskLock, taskCancel, tasks, started, cancelled, life, task, polls,
                   listenersNil, cache, dispatched>>
    /\ UNCHANGED <<resolverVars, keyRingVars, fetcherVars, listenerVars, callVars>>

SubscribedNext ==
    \/ StartCheck(LifeCaller)
    \/ StartSpawnAll(LifeCaller)
    \/ StopCheck(LifeCaller)
    \/ StopCancel(LifeCaller)
    \/ \E t \in DOMAIN task : TaskFetchUpTo(t, MaxTaskPolls)
    \/ \E t \in DOMAIN task, out \in SubscribedFetchOutcomes : FetchReturn(t, out)
    \/ \E t \in DOMAIN task : DispatchLock(t)
    \/ \E t \in DOMAIN task : DispatchReturn(t)
    \/ \E t \in DOMAIN task : TaskCancelled(t)

\* A Refresher started once and never stopped, with a second listener that
\* registers while the tasks run.
DispatchNext ==
    \/ StartCheck(LifeCaller)
    \/ StartSpawnAll(LifeCaller)
    \/ AddListenerLock(LateListener)
    \/ AddListenerReturn(LateListener)
    \/ \E t \in DOMAIN task : TaskFetchUpTo(t, MaxTaskPolls)
    \/ \E t \in DOMAIN task, out \in SubscribedFetchOutcomes : FetchReturn(t, out)
    \/ \E t \in DOMAIN task : DispatchLock(t)
    \/ \E t \in DOMAIN task : DispatchReturn(t)

(***************************************************************************)
(* Subscribed KeyRing: what the claims speak of.                           *)
(***************************************************************************)
\* The places in dispatched of the successful events of source u in a run.
OKEvents(u, run) ==
    {i \in DOMAIN dispatched :
        dispatched[i].URI = u /\ dispatched[i].run = run /\ dispatched[i].Err = NoErr}

Min(S) == CHOOSE x \in S : \A y \in S : x <= y

\* Every dispatched event has been applied by the listeners.
AllApplied == \A t \in DOMAIN task : task[t].pc # "calling"

\* C36, as stated: in the first run, once every dispatched event is applied,
\* the KeyRing holds every key of the most recent successful event of each
\* source: no deletion by one source removes a key another source serves.
C36_RingHoldsEverySourceKeys ==
    (started = 1 /\ AllApplied) =>
        \A u \in SubscribedURIs :
            OKEvents(u, 1) # {} =>
                \A id \in KeyIDs(dispatched[Max(OKEvents(u, 1))].Keys) : id \in DOMAIN keyRing

\* C36, what the code keeps: when the KeyRing returns from a successful
\* event, it holds every key of that event.
C36_RingHoldsAppliedEventKeys ==
    [][\A t \in DOMAIN task :
          (/\ task[t].pc = "calling"
           /\ task'[t].pc # "calling"
           /\ task[t].event.Err = NoErr)
          => \A id \in KeyIDs(task[t].event.Keys) : id \in DOMAIN keyRing']_vars

\* C37, as stated: a key that the last successful event of a source before
\* a restart carried, and that the first successful event of that source
\* after the restart does not carry, is in the deleted list of that event.
C37_RestartReportsDeleted ==
    \A u \in SubscribedURIs, run \in 1..(started - 1) :
        (OKEvents(u, run) # {} /\ OKEvents(u, run + 1) # {}) =>
            LET last == dispatched[Max(OKEvents(u, run))]
                first == dispatched[Min(OKEvents(u, run + 1))]
            IN \A id \in KeyIDs(last.Keys) \ KeyIDs(first.Keys) : id \in KeyIDs(first.Deleted)

\* C37, what the code does: the first successful event of a task reports
\* every key new and none deleted, whatever an earlier run saw.
C37_FirstEventDeletesNothing ==
    \A u \in SubscribedURIs, run \in 1..started :
        OKEvents(u, run) # {} =>
            LET first == dispatched[Min(OKEvents(u, run))]
            IN first.Deleted = <<>> /\ KeyIDs(first.New) = KeyIDs(first.Keys)

\* The calls that are inside a listener callback: a dispatch walking the
\* list, an addListener replaying the cache.
InCallback ==
    {t \in DOMAIN task : task[t].pc = "calling"}
        \cup {<<l>> : l \in {m \in Listeners : lstate[m] = "adding"}}

\* C38: at most one call is inside a listener callback at any time: the
\* events of the tasks of different sources, and the replay to a new
\* listener, are delivered one at a time.
C38_CallbacksOneAtATime == Cardinality(InCallback) <= 1

\* C38, witness: the task of one source is inside the callbacks with its
\* event while the task of the other source holds an event ready and waits
\* for rl.lock.
C38_Witness ==
    \E t, s \in DOMAIN task :
        /\ t[2] # s[2]
        /\ task[t].pc = "calling"
        /\ task[s].pc = "dispatch"
        /\ rlLock = t

(***************************************************************************)
(*                               FETCHER                                   *)
(***************************************************************************)
\* The material whose Thumbprint fails.
BadMaterial == 9

\* The keys a Parser may return: keys with a key ID, keys without one, and
\* a key without one whose Thumbprint fails.
ParsedKey ==
    { Key("A", 1), Key("B", 2), Key("", 1), Key("", 2), Key("", BadMaterial) }

\* The key lists a Parser may return, nil included.
RECURSIVE ParsedKeys(_)
ParsedKeys(n) ==
    IF n = 0 THEN {<<>>}
    ELSE ParsedKeys(n - 1) \cup
         {Append(ks, k) : ks \in {x \in ParsedKeys(n - 1) : Len(x) = n - 1}, k \in ParsedKey}

\* An error value here is the list of the errors multierr has combined;
\* the empty list is nil.
multierrAppend(left, right) == left \o right

\* Key.Thumbprint: the hash of the key's material, or an error.
Thumbprint(k) ==
    IF k.mat = BadMaterial THEN [t |-> 0, err |-> <<"thumbprint failed">>]
    ELSE [t |-> k.mat, err |-> <<>>]

\* base64.RawURLEncoding.EncodeToString of a thumbprint.
EncodeToString(t) == IF t = 1 THEN "dGh1bWIx" ELSE "dGh1bWIy"

\* EnsureKeyID: a key with a key ID is returned as it is; a key without one
\* is returned as a copy with its encoded thumbprint as key ID, or as it is,
\* with the error, when the thumbprint fails.
EnsureKeyID(k) ==
    IF k.keyID = ""
    THEN LET tp == Thumbprint(k) IN
         IF tp.err = <<>>
         THEN [updated |-> [k EXCEPT !.keyID = EncodeToString(tp.t)], err |-> <<>>]
         ELSE [updated |-> k, err |-> tp.err]
    ELSE [updated |-> k, err |-> <<>>]

\* fetcher.Fetch, its loop over keys[1..i]: each key replaced by
\* EnsureKeyID's result and the errors appended to err.
RECURSIVE ensureKeyIDs(_, _, _)
ensureKeyIDs(keys, err, i) ==
    IF i = 0 THEN [keys |-> keys, err |-> err]
    ELSE LET before == ensureKeyIDs(keys, err, i - 1)
             e == EnsureKeyID(keys[i])
         IN [keys |-> [before.keys EXCEPT ![i] = e.updated],
             err |-> multierrAppend(before.err, e.err)]

\* What the Loader and the Parser of one Fetch return: LoadContent fails
\* (and the Parser is not called), or it succeeds and the Parser returns a
\* key list, with or without an error.
FetchInputs ==
    {[loadErr |-> <<"load failed">>, parsed |-> <<>>, parseErr |-> <<>>]}
        \cup {[loadErr |-> <<>>, parsed |-> ks, parseErr |-> pe] :
                 ks \in ParsedKeys(MaxParsedKeys), pe \in {<<>>, <<ErrParse>>}}

IdleFetch == [pc |-> "idle", in |-> [loadErr |-> <<>>, parsed |-> <<>>, parseErr |-> <<>>],
              keys |-> <<>>, err |-> <<>>]

\* No Fetch is under way.
FetcherInit == fetchCall = IdleFetch

\* fetcher.Fetch: LoadContent, then Parse unless the load failed, then
\* EnsureKeyID for every key; the keys and the combined error are returned.
Fetch ==
    /\ fetchCall.pc = "called"
    /\ LET in == fetchCall.in
           keys == IF in.loadErr = <<>> THEN in.parsed ELSE <<>>
           err == IF in.loadErr = <<>> THEN in.parseErr ELSE in.loadErr
           out == ensureKeyIDs(keys, err, Len(keys))
       IN fetchCall' = [fetchCall EXCEPT !.pc = "returned", !.keys = out.keys, !.err = out.err]
    /\ UNCHANGED <<resolverVars, refresherVars, keyRingVars, listenerVars, callVars>>

FetcherNext == Fetch

\* C20, as stated: every key Fetch returns has a key ID, whether or not it
\* returns an error with them.
C20_FetchedKeysHaveKeyID ==
    fetchCall.pc = "returned" =>
        \A i \in DOMAIN fetchCall.keys : fetchCall.keys[i].keyID # ""

(***************************************************************************)
(*                              LISTENERS                                  *)
(***************************************************************************)
\* The listeners that may be added; one may be added more than once.
Sinks == {"s1", "s2"}

\* The zero value of listeners: l.listeners is nil.
NilList == [nil |-> TRUE, elements |-> <<>>]

\* list.New(): an empty list.  An element is known by its number, the
\* position of its PushBack among all of them.
listNew == [nil |-> FALSE, elements |-> <<>>]

\* (*list.List).PushBack.
PushBack(l, e) == [l EXCEPT !.elements = Append(@, e)]

\* A mutant of Remove: the element at the front is removed, whichever
\* element is given.
RemoveFront(l, e) == [l EXCEPT !.elements = IF @ = <<>> THEN @ ELSE Tail(@)]

\* A mutant of Remove: nothing is removed.
RemoveNothing(l, e) == l

\* (*list.List).Remove: e is removed if it is an element of the list, and
\* nothing happens otherwise.
Remove(l, e) ==
    LET Other(x) == x # e
    IN [l EXCEPT !.elements = SelectSeq(@, Other)]

\* No visit under way: the number of visits made so far.
IdleVisit(event) == [pc |-> "idle", event |-> event, e |-> 0]

ListenerInit ==
    /\ lsLock = FALSE
    /\ lsList = NilList
    /\ lsElems = <<>>
    /\ lsCancels = <<>>
    /\ lsVisit = IdleVisit(0)
    /\ lsSeen = <<>>

\* The elements whose CancelListenerFunc has returned at least once.
Cancelled == {e \in DOMAIN lsElems : lsCancels[e] # <<>>}

\* addListener: under the lock, the list is created if there is none, the
\* listener is pushed to the back, and the closure for its element returned.
addListener(newListener) ==
    /\ ~lsLock
    /\ Len(lsElems) < MaxAdds
    /\ LET e == Len(lsElems) + 1 IN
       /\ lsList' = PushBack(IF lsList.nil THEN listNew ELSE lsList, e)
       /\ lsElems' = Append(lsElems, [Value |-> newListener, at |-> lsVisit.event])
    /\ lsCancels' = Append(lsCancels, <<>>)
    /\ lsSeen' = Append(lsSeen, {})
    /\ UNCHANGED <<lsLock, lsVisit>>
    /\ UNCHANGED <<resolverVars, refresherVars, keyRingVars, fetcherVars, callVars>>

\* The invocations of CancelListenerFuncs that have returned.
Cancels == {<<e, i>> \in (DOMAIN lsElems) \X (1..MaxCancels) : i <= Len(lsCancels[e])}

\* The closure of cancelListener(e): under the lock, l.listeners.Remove(e).
cancelListener(e) ==
    /\ ~lsLock
    /\ e \in DOMAIN lsElems
    /\ Cardinality(Cancels) < MaxCancels
    /\ lsList' = Remove(lsList, e)
    /\ lsCancels' = [lsCancels EXCEPT ![e] = Append(@, lsVisit.event)]
    /\ UNCHANGED <<lsLock, lsElems, lsVisit, lsSeen>>
    /\ UNCHANGED <<resolverVars, refresherVars, keyRingVars, fetcherVars, callVars>>

\* visit: the lock is taken; without a list the visit returns at once,
\* otherwise it starts at the front of the list.
visit ==
    /\ ~lsLock
    /\ lsVisit.pc = "idle"
    /\ lsVisit.event < MaxVisits
    /\ IF lsList.nil
       THEN /\ lsVisit' = IdleVisit(lsVisit.event + 1)
            /\ UNCHANGED lsLock
       ELSE /\ lsVisit' = [pc |-> "walking", event |-> lsVisit.event + 1, e |-> 1]
            /\ lsLock' = TRUE
    /\ UNCHANGED <<lsList, lsElems, lsCancels, lsSeen>>
    /\ UNCHANGED <<resolverVars, refresherVars, keyRingVars, fetcherVars, callVars>>

\* visit, the loop body: f(e.Value) and e = e.Next().
visitCall ==
    /\ lsVisit.pc = "walking"
    /\ lsVisit.e <= Len(lsList.elements)
    /\ lsSeen' = [lsSeen EXCEPT ![lsList.elements[lsVisit.e]] = @ \cup {lsVisit.event}]
    /\ lsVisit' = [lsVisit EXCEPT !.e = @ + 1]
    /\ UNCHANGED <<lsLock, lsList, lsElems, lsCancels>>
    /\ UNCHANGED <<resolverVars, refresherVars, keyRingVars, fetcherVars, callVars>>

\* visit, e == nil: the loop ends and the deferred Unlock runs.
visitReturn ==
    /\ lsVisit.pc = "walking"
    /\ lsVisit.e > Len(lsList.elements)
    /\ lsVisit' = IdleVisit(lsVisit.event)
    /\ lsLock' = FALSE
    /\ UNCHANGED <<lsList, lsElems, lsCancels, lsSeen>>
    /\ UNCHANGED <<resolverVars, refresherVars, keyRingVars, fetcherVars, callVars>>

ListenerNext ==
    \/ \E newListener \in Sinks : addListener(newListener)
    \/ \E e \in DOMAIN lsElems : cancelListener(e)
    \/ visit
    \/ visitCall
    \/ visitReturn

(***************************************************************************)
(* listeners: what the claims speak of.                                    *)
(***************************************************************************)
\* The elements added so far, in the order of their addition.
Added == [e \in DOMAIN lsElems |-> e]

\* C21: a CancelListenerFunc is idempotent and removes its own element
\* only.  Whatever additions, cancellations and visits happened in whatever
\* order, the list holds the elements added so far, in the order of their
\* addition, without exactly those whose CancelListenerFunc was invoked at
\* least once: the first invocation removed its element and no other, and
\* no later invocation removed anything.
C21_CancelIdempotent ==
    LET NotCancelled(e) == e \notin Cancelled
    IN /\ lsList.nil <=> lsElems = <<>>
       /\ lsList.elements = SelectSeq(Added, NotCancelled)

\* C21, witness: the CancelListenerFunc of the first element was invoked
\* before the first visit and again after the second; between the two
\* visits a third listener was added and the second element cancelled, and
\* the third listener is still in the list.
C21_Witness ==
    /\ Len(lsElems) = 3
    /\ lsCancels[1] = <<0, 2>>
    /\ lsElems[3].at = 1
    /\ lsCancels[2] = <<1>>
    /\ lsList.elements = <<3>>

\* The events f was called with for the listener of an element that stays
\* in the list from its addition on: every visit that began after the
\* addition and has passed the element.
Delivered(e) ==
    {n \in (lsElems[e].at + 1)..lsVisit.event :
        \/ n < lsVisit.event
        \/ lsVisit.pc = "idle"
        \/ \E i \in DOMAIN lsList.elements : lsList.elements[i] = e /\ i < lsVisit.e}

\* C22: an element whose CancelListenerFunc has returned received the
\* events of the visits made between its addition and the return of the
\* first invocation, and none of a later visit; every other element has
\* received the event of every visit since its addition that has passed it.
C22_NoEventAfterCancel ==
    \A e \in DOMAIN lsElems :
        IF e \in Cancelled
        THEN lsSeen[e] = (lsElems[e].at + 1)..lsCancels[e][1]
        ELSE lsSeen[e] = Delivered(e)

\* C22, witness: two listeners received the first event; the first was
\* then cancelled, and the second alone received the second event.
C22_Witness ==
    /\ Len(lsElems) >= 2
    /\ lsCancels[1] # <<>> /\ lsCancels[1][1] = 1
    /\ lsCancels[2] = <<>>
    /\ lsSeen[1] = {1}
    /\ lsSeen[2] = {1, 2}
    /\ lsVisit = IdleVisit(2)

(***************************************************************************)
(*                          REFRESH INTERVALS                              *)
(***************************************************************************)
\* int64(x) of the float64 x = n / d: the fraction is cut off, towards zero.
Trunc(n, d) == IF n >= 0 THEN n \div d ELSE -((-n) \div d)

\* The sources an interval is computed for, as validateAndSetDefaults leaves
\* them (0 < Jitter < 100 percent, 0 < MinInterval <= Interval), and what
\* the fetch before returned.
IntervalInputs ==
    [s    : [URI : {"u1"}, Interval : {20}, MinInterval : {1, 4}, Jitter : {DefaultRefreshJitter, 25, 50, 75}],
     meta : {Meta(ttl) : ttl \in 0..8},
     err  : {NoErr, ErrFetch}]

\* newJitterer for such a source, for which none of its defaults applies.
newJitterer(source) ==
    [intervalBase      |-> Trunc((100 - source.Jitter) * source.Interval, 100),
     intervalRange     |-> Trunc((100 + source.Jitter) * source.Interval, 100)
                              - Trunc((100 - source.Jitter) * source.Interval, 100) + 1,
     minInterval       |-> source.MinInterval,
     jitter            |-> source.Jitter,
     ttlBaseMultiplier |-> 100 - 2 * source.Jitter]

\* jitterer.nextInterval: the durations it may return; none when Int63n
\* panics.
nextInterval(j, meta, fetchErr) ==
    LET drawn == IF fetchErr # NoErr \/ meta.TTL <= 0
                 THEN {j.intervalBase + x : x \in Int63n(j.intervalRange)}
                 ELSE LET base == Trunc(j.ttlBaseMultiplier * meta.TTL, 100)
                      IN {base + x : x \in Int63n(meta.TTL - base + 1)}
    IN {IF next < j.minInterval THEN j.minInterval ELSE next : next \in drawn}

IdleIntervalCall == [pc |-> "idle", by |-> "", in |-> <<>>, next |-> 0]

\* The call ends: it returns one of the durations, or it panics when there
\* is none.
IntervalCallEnds(by, durations) ==
    /\ intervalCall.pc = "called"
    /\ IF durations = {}
       THEN intervalCall' = [intervalCall EXCEPT !.pc = "panicked", !.by = by]
       ELSE \E next \in durations :
               intervalCall' = [intervalCall EXCEPT !.pc = "returned", !.by = by, !.next = next]
    /\ UNCHANGED <<newRefresherCall, parseCall>>
    /\ UNCHANGED <<resolverVars, refresherVars, keyRingVars, fetcherVars, listenerVars>>

\* refreshTask.run: next = rt.computeNextRefresh(prevMeta, err).
ComputeNextRefresh ==
    IntervalCallEnds("computeNextRefresh",
                     computeNextRefresh(intervalCall.in.s, intervalCall.in.meta, intervalCall.in.err))

\* newJitterer(source).nextInterval(meta, fetchErr).
NextInterval ==
    IntervalCallEnds("nextInterval",
                     nextInterval(newJitterer(intervalCall.in.s), intervalCall.in.meta,
                                  intervalCall.in.err))

IntervalNext ==
    \/ ComputeNextRefresh
    \/ NextInterval

(***************************************************************************)
(* Refresh intervals: what the claims speak of.                            *)
(***************************************************************************)
\* The previous fetch succeeded and the TTL of the server is known.
TTLKnown(in) == in.err = NoErr /\ in.meta.TTL > 0

\* next lies in [max(minInterval, (1 - 2 jitter) ttl), max(minInterval, ttl)],
\* the lower bound in whole units of time.
InTTLRange(in, next) ==
    LET least == Trunc((100 - 2 * in.s.Jitter) * in.meta.TTL, 100)
    IN /\ next >= (IF least < in.s.MinInterval THEN in.s.MinInterval ELSE least)
       /\ next <= (IF in.meta.TTL < in.s.MinInterval THEN in.s.MinInterval ELSE in.meta.TTL)

\* C23, as stated: when the previous fetch succeeded and the TTL is known,
\* the computation of the next refresh interval returns a duration in
\* [max(minInterval, (1 - 2 jitter) ttl), max(minInterval, ttl)].
C23_NextIntervalInRange ==
    (intervalCall.pc # "called" /\ TTLKnown(intervalCall.in)) =>
        /\ intervalCall.pc = "returned"
        /\ InTTLRange(intervalCall.in, intervalCall.next)

\* C23, for jitterer.nextInterval alone: the statement holds.
C23_JittererInRange ==
    (intervalCall.by = "nextInterval" /\ TTLKnown(intervalCall.in)) =>
        /\ intervalCall.pc = "returned"
        /\ InTTLRange(intervalCall.in, intervalCall.next)

\* C23, for computeNextRefresh when it returns: the duration is in the
\* range.
C23_ComputedInRangeIfReturned ==
    (intervalCall.by = "computeNextRefresh" /\ intervalCall.pc = "returned"
        /\ TTLKnown(intervalCall.in)) =>
        InTTLRange(intervalCall.in, intervalCall.next)

(***************************************************************************)
(*                            NewRefresher                                 *)
(***************************************************************************)
\* The defaults of a RefreshSource, in minutes.
DefaultRefreshInterval == 1440
DefaultRefreshMinInterval == 10

\* The sources NewRefresher may be given with WithSources: the URI may be
\* missing, the other fields unset (0), valid or invalid; an interval may be
\* shorter than the default minimum.  Durations are in minutes, Jitter is in
\* percent.
ConfiguredSource ==
    [URI : {"", "u1", "u2"}, Interval : {0, 5, 20}, MinInterval : {0, 30}, Jitter : {0, 25, 100}]

\* The lists of at most n configured sources.
RECURSIVE ConfiguredSources(_)
ConfiguredSources(n) ==
    IF n = 0 THEN {<<>>}
    ELSE ConfiguredSources(n - 1) \cup
         {Append(ss, s) : ss \in {x \in ConfiguredSources(n - 1) : Len(x) = n - 1},
                          s \in ConfiguredSource}

\* RefreshSource.validateAndSetDefaults: the copy with the defaults set, and
\* the errors found.
validateAndSetDefault(rs) ==
    LET jitter == IF rs.Jitter = 0 THEN DefaultRefreshJitter ELSE rs.Jitter
        interval == IF rs.Interval = 0 THEN DefaultRefreshInterval ELSE rs.Interval
        minInterval == IF rs.MinInterval = 0 THEN DefaultRefreshMinInterval ELSE rs.MinInterval
    IN [defaulted |-> [URI |-> rs.URI, Interval |-> interval, MinInterval |-> minInterval,
                       Jitter |-> jitter],
        err |-> (IF rs.URI = "" THEN <<"A URI is required for each refresh source">> ELSE <<>>)
                \o (IF rs.Jitter # 0 /\ (rs.Jitter < 0 \/ rs.Jitter >= 100)
                    THEN <<"Invalid refresh jitter">> ELSE <<>>)
                \o (IF rs.Interval < 0 THEN <<"Invalid refresh interval">> ELSE <<>>)
                \o (IF rs.MinInterval < 0 THEN <<"Invalid minimum refresh interval">> ELSE <<>>)
                \o (IF minInterval > interval THEN <<"Invalid MinInterval">> ELSE <<>>)]

\* validateAndSetDefaults(in...): from the i-th source on, with the sources
\* accepted and the errors found so far.  A source whose URI was seen before
\* is reported and left out.
RECURSIVE validateAndSetDefaults(_, _, _, _)
validateAndSetDefaults(in, i, out, err) ==
    IF i > Len(in) THEN [out |-> out, err |-> err]
    ELSE LET v == validateAndSetDefault(in[i])
             err1 == multierrAppend(err, v.err)
         IN IF \E j \in DOMAIN out : out[j].URI = v.defaulted.URI
            THEN validateAndSetDefaults(in, i + 1, out,
                                        multierrAppend(err1, <<"Duplicate refresh source URI">>))
            ELSE validateAndSetDefaults(in, i + 1, Append(out, v.defaulted), err1)

\* A nil Refresher.
NilRefresher == [nil |-> TRUE, sources |-> <<>>]

IdleNewRefresherCall == [pc |-> "idle", in |-> <<>>, r |-> NilRefresher, err |-> <<>>]

\* NewRefresher(WithSources(in...)): r is allocated, the option appends the
\* sources, they are validated, and r is returned with the error.
NewRefresher ==
    /\ newRefresherCall.pc = "called"
    /\ LET v == validateAndSetDefaults(newRefresherCall.in, 1, <<>>, <<>>)
       IN newRefresherCall' = [newRefresherCall EXCEPT !.pc = "returned",
                                                       !.r = [nil |-> FALSE, sources |-> v.out],
                                                       !.err = v.err]
    /\ UNCHANGED <<intervalCall, parseCall>>
    /\ UNCHANGED <<resolverVars, refresherVars, keyRingVars, fetcherVars, listenerVars>>

NewRefresherNext == NewRefresher

(***************************************************************************)
(* NewRefresher: what the claims speak of.                                 *)
(***************************************************************************)
\* A configured source has an empty URI, or two share their URI.
EmptyOrDuplicateURI(in) ==
    \/ \E i \in DOMAIN in : in[i].URI = ""
    \/ \E i, j \in DOMAIN in : i # j /\ in[i].URI = in[j].URI

\* C24, as stated: NewRefresher returns a nil Refresher and a non-nil error
\* when a configured source has an empty URI or two configured sources
\* share their URI.
C24_NilRefresherOnBadURI ==
    (newRefresherCall.pc = "returned" /\ EmptyOrDuplicateURI(newRefresherCall.in)) =>
        /\ newRefresherCall.r.nil
        /\ newRefresherCall.err # <<>>

\* C24, the error alone: it is non-nil for such sources.
C24_ErrorOnBadURI ==
    (newRefresherCall.pc = "returned" /\ EmptyOrDuplicateURI(newRefresherCall.in)) =>
        newRefresherCall.err # <<>>

\* The one source NewRefresher was given, when it has a URI, a positive
\* interval, and neither a minimum interval nor a jitter.
OnlyIntervalSet(in) ==
    /\ Len(in) = 1
    /\ in[1].URI # ""
    /\ in[1].Interval > 0
    /\ in[1].MinInterval = 0
    /\ in[1].Jitter = 0

\* C39, as stated: a source with a URI and a positive interval, its minimum
\* interval and jitter unset, is accepted by NewRefresher.
C39_OnlyIntervalSetPasses ==
    (newRefresherCall.pc = "returned" /\ OnlyIntervalSet(newRefresherCall.in))
        => newRefresherCall.err = <<>>

\* C39, what the code keeps: such a source is accepted when its interval is
\* no shorter than DefaultRefreshMinInterval.
C39_LongIntervalPasses ==
    (/\ newRefresherCall.pc = "returned"
     /\ OnlyIntervalSet(newRefresherCall.in)
     /\ newRefresherCall.in[1].Interval >= DefaultRefreshMinInterval)
        => newRefresherCall.err = <<>>

(***************************************************************************)
(*                               PARSER                                    *)
(***************************************************************************)
MediaTypeJSON == "application/json"
SuffixJSON == ".json"
MediaTypeJWK == "application/jwk+json"
SuffixJWK == ".jwk"
MediaTypeJWKSet == "application/jwk-set+json"
SuffixJWKSet == ".jwk-set"
MediaTypePEM == "application/x-pem-file"
SuffixPEM == ".pem"

\* NewParser(): ps.p, the parser of each format.  jsp is JWKSetParser{}, jp
\* is JWKKeyParser{} and usePEM is the JWKSetParser with jwk.WithPEM(true).
NewParser ==
    [f \in {MediaTypeJSON, SuffixJSON, MediaTypeJWK, SuffixJWK,
            MediaTypeJWKSet, SuffixJWKSet, MediaTypePEM, SuffixPEM} |->
        IF f \in {MediaTypeJWK, SuffixJWK} THEN "jp"
        ELSE IF f \in {MediaTypePEM, SuffixPEM} THEN "usePEM"
        ELSE "jsp"]

\* What a format handed to Parse may be: a media type or a file suffix with
\* or without MIME parameters.  The format is the string of the two parts.
FormatTypes == DOMAIN NewParser \cup {"text/plain"}
FormatParameters == {"", ";charset=us-ascii", ";charset=utf-8"}

\* The content handed to Parse, by what it holds.
Contents == {"jwk", "jwk-set", "pem", "garbage"}

ErrUnsupportedFormat == "unsupported key format"

\* JWKKeyParser.Parse and JWKSetParser.Parse: a single JWK is one key, a JWK
\* set and a PEM list here are two; jp takes a single JWK only, jsp a JWK
\* or a JWK set, usePEM PEM blocks.
parserParse(p, content) ==
    LET one == <<Key("a", 1)>>
        two == <<Key("a", 1), Key("b", 1)>>
        pem == <<Key("", 1), Key("", 2)>>
    IN IF p = "jp" /\ content = "jwk" THEN [keys |-> one, err |-> NoErr]
       ELSE IF p = "jsp" /\ content = "jwk" THEN [keys |-> one, err |-> NoErr]
       ELSE IF p = "jsp" /\ content = "jwk-set" THEN [keys |-> two, err |-> NoErr]
       ELSE IF p = "usePEM" /\ content = "pem" THEN [keys |-> pem, err |-> NoErr]
       ELSE [keys |-> <<>>, err |-> ErrParse]

\* parsers.Parse: the parser registered under the format as it is given, or
\* an UnsupportedFormatError.
parsersParse(ps, format, content) ==
    IF format \in DOMAIN ps
    THEN parserParse(ps[format], content)
    ELSE [keys |-> <<>>, err |-> ErrUnsupportedFormat]

IdleParseCall == [pc |-> "idle", type |-> "", parameters |-> "", content |-> "",
                  keys |-> <<>>, err |-> NoErr]

\* NewParser().Parse(format, content).
Parse ==
    /\ parseCall.pc = "called"
    /\ LET out == parsersParse(NewParser, parseCall.type \o parseCall.parameters,
                               parseCall.content)
       IN parseCall' = [parseCall EXCEPT !.pc = "returned", !.keys = out.keys, !.err = out.err]
    /\ UNCHANGED <<intervalCall, newRefresherCall>>
    /\ UNCHANGED <<resolverVars, refresherVars, keyRingVars, fetcherVars, listenerVars>>

ParserNext == Parse

(***************************************************************************)
(* Parser: what the claims speak of.                                       *)
(***************************************************************************)
\* C25, as stated: Parse selects the parser by the format without its MIME
\* parameters: a call with a registered media type, followed by parameters
\* or not, returns what the parser registered for the media type returns
\* for the content.
C25_ParametersStripped ==
    (parseCall.pc = "returned" /\ parseCall.type \in DOMAIN NewParser) =>
        LET out == parserParse(NewParser[parseCall.type], parseCall.content)
        IN parseCall.keys = out.keys /\ parseCall.err = out.err

\* C25, without parameters: the format selects its parser.
C25_ExactFormatSelects ==
    (parseCall.pc = "returned" /\ parseCall.type \in DOMAIN NewParser
        /\ parseCall.parameters = "") =>
        LET out == parserParse(NewParser[parseCall.type], parseCall.content)
        IN parseCall.keys = out.keys /\ parseCall.err = out.err

\* C25, with parameters: no parser is found.
C25_ParametersUnsupported ==
    (parseCall.pc = "returned" /\ parseCall.parameters # "") =>
        parseCall.keys = <<>> /\ parseCall.err = ErrUnsupportedFormat

\* No call of a single function is under way.
CallsInit ==
    /\ intervalCall = IdleIntervalCall
    /\ newRefresherCall = IdleNewRefresherCall
    /\ parseCall = IdleParseCall

(***************************************************************************)
(* The specifications.                                                     *)
(***************************************************************************)
ResolverStart == ResolverInit /\ RefresherInit /\ KeyRingInit /\ FetcherInit /\ ListenerInit /\ CallsInit

ResolverSpec == ResolverStart /\ [][ResolverNext]_vars

RefresherStart == ResolverInit /\ hasKeyRing = TRUE /\ RefresherInit /\ KeyRingInit /\ FetcherInit /\ ListenerInit /\ CallsInit

RefresherSpec == RefresherStart /\ [][RefresherNext]_vars

TaskStart == ResolverInit /\ hasKeyRing = TRUE /\ RefresherInit /\ KeyRingInit /\ FetcherInit /\ ListenerInit /\ CallsInit

TaskSpec == TaskStart /\ [][TaskNext]_vars

\* The KeyRing of NewKeyRing(initialKeys...), no Resolver or Refresher at
\* work.
KeyRingStart ==
    /\ hasKeyRing = TRUE
    /\ \E initialKeys \in InitialKeys : keyRing = NewKeyRing(initialKeys)
    /\ resolveLock = 0
    /\ pending = [x \in {} |-> 0]
    /\ requests = <<>>
    /\ call = [c \in Callers |-> IdleCall]
    /\ resolveEvents = {}
    /\ RefresherInit
    /\ KeyRingInit
    /\ FetcherInit
    /\ ListenerInit
    /\ CallsInit

KeyRingSpec == KeyRingStart /\ [][KeyRingNext]_vars

\* One call of Fetch, for every answer of its Loader and Parser.
FetcherStart ==
    /\ ResolverInit /\ hasKeyRing = TRUE
    /\ RefresherInit
    /\ KeyRingInit
    /\ \E in \in FetchInputs : fetchCall = [IdleFetch EXCEPT !.pc = "called", !.in = in]
    /\ ListenerInit
    /\ CallsInit

FetcherSpec == FetcherStart /\ [][FetcherNext]_vars

\* One listeners value, with listeners added and cancelled while visits
\* are made.
ListenerStart ==
    /\ ResolverInit /\ hasKeyRing = TRUE
    /\ RefresherInit
    /\ KeyRingInit
    /\ FetcherInit
    /\ ListenerInit
    /\ CallsInit

ListenerSpec == ListenerStart /\ [][ListenerNext]_vars

\* One computation of the next refresh interval, by computeNextRefresh or
\* by the jitterer, for every source and every outcome of the fetch before.
IntervalStart ==
    /\ ResolverInit /\ hasKeyRing = TRUE
    /\ RefresherInit
    /\ KeyRingInit
    /\ FetcherInit
    /\ ListenerInit
    /\ \E in \in IntervalInputs : intervalCall = [IdleIntervalCall EXCEPT !.pc = "called", !.in = in]
    /\ newRefresherCall = IdleNewRefresherCall
    /\ parseCall = IdleParseCall

IntervalSpec == IntervalStart /\ [][IntervalNext]_vars

\* One call of NewRefresher, for every list of configured sources.
NewRefresherStart ==
    /\ ResolverInit /\ hasKeyRing = TRUE
    /\ RefresherInit
    /\ KeyRingInit
    /\ FetcherInit
    /\ ListenerInit
    /\ intervalCall = IdleIntervalCall
    /\ \E in \in ConfiguredSources(MaxSources) :
           newRefresherCall = [IdleNewRefresherCall EXCEPT !.pc = "called", !.in = in]
    /\ parseCall = IdleParseCall

NewRefresherSpec == NewRefresherStart /\ [][NewRefresherNext]_vars

\* One call of Parse on the Parser of NewParser(), for every format and
\* content.
ParserStart ==
    /\ ResolverInit /\ hasKeyRing = TRUE
    /\ RefresherInit
    /\ KeyRingInit
    /\ FetcherInit
    /\ ListenerInit
    /\ intervalCall = IdleIntervalCall
    /\ newRefresherCall = IdleNewRefresherCall
    /\ \E type \in FormatTypes, parameters \in FormatParameters, content \in Contents :
           parseCall = [IdleParseCall EXCEPT !.pc = "called", !.type = type,
                                             !.parameters = parameters, !.content = content]

ParserSpec == ParserStart /\ [][ParserNext]_vars

\* ResolveKeyID of src/doc.go, with and without a KeyRing.
ResolveKeyIDStart ==
    /\ ResolverInit
    /\ RefresherInit
    /\ KeyRingInit
    /\ FetcherInit
    /\ ListenerInit
    /\ CallsInit

ResolveKeyIDSpec == ResolveKeyIDStart /\ [][ResolveKeyIDNext]_vars

\* Resolve with callers whose contexts may be cancelled while they fetch.
ResolveCancelStart ==
    /\ ResolverInit
    /\ RefresherInit
    /\ KeyRingInit
    /\ FetcherInit
    /\ ListenerInit
    /\ CallsInit

ResolveCancelSpec == ResolveCancelStart /\ [][ResolveCancelNext]_vars

\* Resolve over a key ring, under a fair scheduler and a Fetcher whose
\* calls return.
ResolveLiveStart ==
    /\ ResolverInit
    /\ hasKeyRing
    /\ RefresherInit
    /\ KeyRingInit
    /\ FetcherInit
    /\ ListenerInit
    /\ CallsInit

ResolveLiveSpec == ResolveLiveStart /\ [][ResolveLiveNext]_vars /\ ResolverFairness

\* A Refresher of two sources with a KeyRing registered as its listener.
SubscribedStart ==
    /\ ResolverInit
    /\ hasKeyRing
    /\ SubscribedInit
    /\ KeyRingInit
    /\ FetcherInit
    /\ ListenerInit
    /\ CallsInit

SubscribedSpec == SubscribedStart /\ [][SubscribedNext]_vars

\* A Refresher of two sources with the KeyRing and, later, a second
\* listener.
DispatchStart ==
    /\ ResolverInit
    /\ hasKeyRing
    /\ SubscribedInit
    /\ KeyRingInit
    /\ FetcherInit
    /\ ListenerInit
    /\ CallsInit

DispatchSpec == DispatchStart /\ [][DispatchNext]_vars

====
